---- MODULE Spec2Model ----
(***************************************************************************)
(* The concurrent collection orchestrator of the libvirt exporter:         *)
(* LibvirtCollector.Collect, execute, and the Update methods of the four   *)
(* collectors (cpu, memory, interface, block), with their goroutines, wait *)
(* groups and the shared metric channel.                                   *)
(***************************************************************************)
EXTENDS Integers, Sequences, FiniteSets, Bags, TLC

\* Bounds of the model.
MaxInput == 3       \* domains + disks + interfaces of one cycle
MaxGoroutines == 4  \* goroutines of one cycle besides the one running Collect

\* float64(cpuTime)/1e9
NanosPerSecond == 1000000000

Modules == {"cpu", "memory", "interface", "block"}

Nil == "nil"
Client == "client"
ErrNoData == "collector returned no data"
ErrNotProvided == "collector not provided with necessary data"
ErrOther == "other error"
Errors == {ErrNoData, ErrNotProvided, ErrOther}

IsNoDataError(err) == err = ErrNoData
IsNotProvidedError(err) == err = ErrNotProvided

scrapeDurationDesc == "libvirt_scrape_collector_duration_seconds"
scrapeSuccessDesc == "libvirt_scrape_collector_success"

VARIABLES
    Collectors,    \* n.Collectors: the names of the active collectors
    pLibvirt,      \* n.pLibvirt: Nil or Client
    connected,     \* what pLibvirt.IsConnected() reports
    collectPc,     \* position of Collect
    domains,       \* Collect: handles returned by ConnectListAllDomains
    num,           \* Collect: the count returned alongside
    lvDomains,     \* Collect: the parsed domain list given to the collectors
    descIdx,       \* Collect: index of the description loop
    toSpawn,       \* Collect: collectors whose goroutine is not yet started
    cycleWg,       \* Collect: wg counter
    modPc,         \* per collector: position of its goroutine (execute/Update)
    modErr,        \* per collector: the error Update returned
    modWg,         \* per collector: Update's wg counter
    modPos,        \* per collector: position of Update's dispatch loop
    units,         \* per collector: the goroutines Update started
    sink,          \* the bag of metrics received from ch in this cycle
    started,       \* history: collectors whose Update was called in this cycle
    connectCalls,  \* history: pLibvirt.Connect() calls of this cycle
    reported,      \* history: what IsConnected() told Collect in this cycle
    abort          \* history: why Collect returned

\* The package-level registry of part_002 and the calls of NewLibvirtCollector
VARIABLES
    phase,                   \* "init" (package init), "flags" (parsed), "serve"
    factories,               \* factories: per name, the registration it is of (0: none)
    collectorState,          \* collectorState: per name, the registration its flag is of
    enabled,                 \* per name: *collectorState[name]
    forcedCollectors,        \* forcedCollectors: names set on the command line
    initiatedCollectors,     \* initiatedCollectors: per name, the cached Collector or Nil
    initiatedCollectorsMtx,  \* initiatedCollectorsMtx: the call that holds it, or 0
    calls,                   \* per call of NewLibvirtCollector: its locals and position
    constructCalls,          \* history: per name, the calls of its factory
    defaultsDisabled         \* history: DisableDefaultCollectors has been called

\* A second call of Collect on the same LibvirtCollector, running concurrently
VARIABLES
    other    \* the locals of the Collect that is not taking the current step

registryVars == <<phase, factories, collectorState, enabled, forcedCollectors,
                  initiatedCollectors, initiatedCollectorsMtx, calls,
                  constructCalls, defaultsDisabled>>

cycleVars == <<Collectors, pLibvirt, connected, collectPc, domains, num, lvDomains,
               descIdx, toSpawn, cycleWg, modPc, modErr, modWg, modPos, units, sink,
               started, connectCalls, reported, abort>>

\* What Collect, execute and Update leave alone.
nonCycleVars == <<registryVars, other>>

vars == <<cycleVars, nonCycleVars>>

collectVars == <<collectPc, domains, num, lvDomains, descIdx, toSpawn, cycleWg>>
modVars == <<modPc, modErr, modWg, modPos, units>>

----------------------------------------------------------------------------
\* Metrics

\* typedDesc.mustNewConstMetric / prometheus.MustNewConstMetric; a value is
\* the fraction <<numerator, denominator>>.
mustNewConstMetric(desc, value, labels) ==
    [desc |-> desc, value |-> value, labels |-> labels]

Send(ch, metric) == ch (+) SetToBag({metric})

\* strconv.Itoa
Itoa(n) == ToString(n)

----------------------------------------------------------------------------
\* Domain descriptions (libvirt_schema.Domain) as the collectors read them

UUIDs == <<"uuid-1", "uuid-2", "uuid-3", "uuid-4", "uuid-5", "uuid-6">>
DiskTargets == <<"vda", "vdb", "vdc", "vdd", "vde", "vdf">>
DiskFiles == <<"/img/a", "/img/b", "/img/c", "/img/d", "/img/e", "/img/f">>
IfaceTargets == <<"vnet0", "vnet1", "vnet2", "vnet3", "vnet4", "vnet5">>
IfaceBridges == <<"br0", "br1", "br2", "br3", "br4", "br5">>

DiskDevices == {"disk", "cdrom", "fq"}

SeqsUpTo(S, n) == UNION {[1..k -> S] : k \in 0..n}

DiskLists ==
    {[k \in 1..Len(ds) |->
        [Device |-> ds[k], File |-> DiskFiles[k], Target |-> DiskTargets[k]]] :
     ds \in SeqsUpTo(DiskDevices, MaxInput - 1)}

IfaceLists ==
    {[k \in 1..Len(ts) |->
        [Target |-> IF ts[k] THEN IfaceTargets[k] ELSE "",
         Bridge |-> IfaceBridges[k]]] :
     ts \in SeqsUpTo(BOOLEAN, MaxInput - 1)}

NilSchema == [UUID |-> Nil, Disks |-> <<>>, Interfaces |-> <<>>]

Schemas(domain) ==
    {[UUID |-> UUIDs[domain], Disks |-> d, Interfaces |-> i] :
     d \in DiskLists, i \in IfaceLists}

ZeroLvDomain == [Domain |-> 0, Schema |-> NilSchema]

RECURSIVE Devices(_)
Devices(lvs) ==
    IF lvs = <<>> THEN 0
    ELSE Len(Head(lvs).Schema.Disks) + Len(Head(lvs).Schema.Interfaces)
           + Devices(Tail(lvs))

----------------------------------------------------------------------------
\* Results of the hypervisor calls (the values a successful call may return)

CpuInfos ==
    {[state |-> 1, nrVirtCPU |-> 2, cpuTime |-> 1500000000],
     [state |-> 3, nrVirtCPU |-> 1, cpuTime |-> 2000000000]}

\* libvirt.DomainMemoryStatTags: SwapIn = 0 .. HugetlbPgfail = 12; a tag that
\* this build does not know is any other number.
MemoryStatsResults ==
    {<<[Tag |-> 6, Val |-> 4096], [Tag |-> 13, Val |-> 1], [Tag |-> 7, Val |-> 512]>>,
     <<[Tag |-> 13, Val |-> 1]>>}

InterfaceStatsResults ==
    {[rxBytes |-> 10, rxPackets |-> 11, rxErrs |-> 12, rxDrop |-> 13,
      txBytes |-> 20, txPackets |-> 21, txErrs |-> 22, txDrop |-> 23]}

BlockStatsResults == {[rdReq |-> 1, rdBytes |-> 2, wrReq |-> 3, wrBytes |-> 4]}

BlockInfoResults == {[allocation |-> 5, capacity |-> 6, physical |-> 7]}

StatResults(m) ==
    CASE m = "cpu" -> CpuInfos
      [] m = "memory" -> MemoryStatsResults
      [] m = "interface" -> InterfaceStatsResults
      [] m = "block" -> BlockStatsResults

----------------------------------------------------------------------------
\* The metrics one work unit sends after a successful call, in sending order

Raw(v) == <<v, 1>>

\* Mutant of CpuSamples: the state label value is left out.
CpuSamplesNoState(r, domainUUID) ==
    << mustNewConstMetric("libvirt_domain_cpu_seconds_total",
                          <<r.cpuTime, NanosPerSecond>>, <<domainUUID>>),
       mustNewConstMetric("libvirt_domain_cpu_vcpu_number",
                          Raw(r.nrVirtCPU), <<domainUUID>>) >>

\* Mutant of CpuSamples: the cpu time is sent as it is, in nanoseconds.
CpuSamplesNanoseconds(r, domainUUID) ==
    << mustNewConstMetric("libvirt_domain_cpu_seconds_total",
                          Raw(r.cpuTime), <<domainUUID, Itoa(r.state)>>),
       mustNewConstMetric("libvirt_domain_cpu_vcpu_number",
                          Raw(r.nrVirtCPU), <<domainUUID, Itoa(r.state)>>) >>

CpuSamples(r, domainUUID) ==
    << mustNewConstMetric("libvirt_domain_cpu_seconds_total",
                          <<r.cpuTime, NanosPerSecond>>, <<domainUUID, Itoa(r.state)>>),
       mustNewConstMetric("libvirt_domain_cpu_vcpu_number",
                          Raw(r.nrVirtCPU), <<domainUUID, Itoa(r.state)>>) >>

MemoryDescOf(tag) ==
    CASE tag = 0 -> "libvirt_domain_memory_stat_swap_in_bytes"
      [] tag = 1 -> "libvirt_domain_memory_stat_swap_out_bytes"
      [] tag = 2 -> "libvirt_domain_memory_stat_major_page_faults_number"
      [] tag = 3 -> "libvirt_domain_memory_stat_minor_page_faults_number"
      [] tag = 4 -> "libvirt_domain_memory_stat_unused_bytes"
      [] tag = 5 -> "libvirt_domain_memory_stat_available_bytes"
      [] tag = 6 -> "libvirt_domain_memory_stat_actual_ballon_bytes"
      [] tag = 7 -> "libvirt_domain_memory_stat_rss_bytes"
      [] tag = 8 -> "libvirt_domain_memory_stat_usable_bytes"
      [] tag = 10 -> "libvirt_domain_memory_stat_disk_cache_bytes"
      [] tag = 9 -> "libvirt_domain_memory_stat_last_update_timestamp_seconds"
      [] tag = 11 -> "libvirt_domain_memory_stat_hugetlb_pages_alloc_number"
      [] tag = 12 -> "libvirt_domain_memory_stat_hugetlb_page_faults_number"
      [] OTHER -> ""

\* Mutant of MemorySamples: the loop over the entries ends at the first entry
\* whose tag is not known.
RECURSIVE MemorySamplesStopAtUnknown(_, _)
MemorySamplesStopAtUnknown(stats, domainUUID) ==
    IF stats = <<>> THEN <<>>
    ELSE LET stat == Head(stats)
         IN  IF MemoryDescOf(stat.Tag) = "" THEN <<>>
             ELSE <<mustNewConstMetric(MemoryDescOf(stat.Tag), Raw(stat.Val),
                                       <<domainUUID>>)>>
                    \o MemorySamplesStopAtUnknown(Tail(stats), domainUUID)

RECURSIVE MemorySamples(_, _)
MemorySamples(stats, domainUUID) ==
    IF stats = <<>> THEN <<>>
    ELSE LET stat == Head(stats)
             rest == MemorySamples(Tail(stats), domainUUID)
         IN  IF MemoryDescOf(stat.Tag) = "" THEN rest
             ELSE <<mustNewConstMetric(MemoryDescOf(stat.Tag), Raw(stat.Val),
                                       <<domainUUID>>)>> \o rest

InterfaceSamples(r, domainUUID, bridgeName, interfaceName) ==
    LET promLabels == <<domainUUID, bridgeName, interfaceName>>
    IN << mustNewConstMetric("libvirt_domain_interface_receive_bytes_total", Raw(r.rxBytes), promLabels),
          mustNewConstMetric("libvirt_domain_interface_receive_packets_total", Raw(r.rxPackets), promLabels),
          mustNewConstMetric("libvirt_domain_interface_receive_errors_total", Raw(r.rxErrs), promLabels),
          mustNewConstMetric("libvirt_domain_interface_receive_drops_total", Raw(r.rxDrop), promLabels),
          mustNewConstMetric("libvirt_domain_interface_transmit_bytes_total", Raw(r.txBytes), promLabels),
          mustNewConstMetric("libvirt_domain_interface_transmit_packets_total", Raw(r.txPackets), promLabels),
          mustNewConstMetric("libvirt_domain_interface_transmit_errors_total", Raw(r.txErrs), promLabels),
          mustNewConstMetric("libvirt_domain_interface_transmit_drops_total", Raw(r.txDrop), promLabels) >>

BlockStatSamples(r, domainUUID, sourceFile, targetDevice) ==
    LET labels == <<domainUUID, sourceFile, targetDevice>>
    IN << mustNewConstMetric("libvirt_domain_block_read_bytes_total", Raw(r.rdBytes), labels),
          mustNewConstMetric("libvirt_domain_block_read_requests_total", Raw(r.rdReq), labels),
          mustNewConstMetric("libvirt_domain_block_write_bytes_total", Raw(r.wrBytes), labels),
          mustNewConstMetric("libvirt_domain_block_write_requests_total", Raw(r.wrReq), labels) >>

\* Mutant of BlockInfoSamples: the physical size is not sent.
BlockInfoSamplesNoPhysical(r, domainUUID, sourceFile, targetDevice) ==
    LET labels == <<domainUUID, sourceFile, targetDevice>>
    IN << mustNewConstMetric("libvirt_domain_block_capacity_bytes", Raw(r.capacity), labels),
          mustNewConstMetric("libvirt_domain_block_allocation_bytes", Raw(r.allocation), labels) >>

BlockInfoSamples(r, domainUUID, sourceFile, targetDevice) ==
    LET labels == <<domainUUID, sourceFile, targetDevice>>
    IN << mustNewConstMetric("libvirt_domain_block_capacity_bytes", Raw(r.capacity), labels),
          mustNewConstMetric("libvirt_domain_block_allocation_bytes", Raw(r.allocation), labels),
          mustNewConstMetric("libvirt_domain_block_physical_bytes", Raw(r.physical), labels) >>

\* The metrics a unit of collector m sends once its stat call returned r.
StatSamples(m, r, u) ==
    CASE m = "cpu" -> CpuSamples(r, u.uuid)
      [] m = "memory" -> MemorySamples(r, u.uuid)
      [] m = "interface" -> InterfaceSamples(r, u.uuid, u.a, u.b)
      [] m = "block" -> BlockStatSamples(r, u.uuid, u.a, u.b)

----------------------------------------------------------------------------
\* Work partitioning of the four Update methods

\* The argument of wg.Add in Update.
CpuWgCounter(lvs) == Len(lvs)

MemoryWgCounter(lvs) == Len(lvs)

RECURSIVE InterfaceWgCounter(_)
InterfaceWgCounter(lvs) ==
    IF lvs = <<>> THEN 0
    ELSE Len(Head(lvs).Schema.Interfaces) + InterfaceWgCounter(Tail(lvs))

RECURSIVE BlockWgCounter(_)
BlockWgCounter(lvs) ==
    IF lvs = <<>> THEN 0
    ELSE Len(Head(lvs).Schema.Disks) + BlockWgCounter(Tail(lvs))

WgCounter(m, lvs) ==
    CASE m = "cpu" -> CpuWgCounter(lvs)
      [] m = "memory" -> MemoryWgCounter(lvs)
      [] m = "interface" -> InterfaceWgCounter(lvs)
      [] m = "block" -> BlockWgCounter(lvs)

\* The iterations of Update's loop(s), in order: what the iteration captures
\* for its goroutine, and whether it skips (wg.Done and continue) instead.
DomainItems(lvs) ==
    [i \in 1..Len(lvs) |->
        [domain |-> lvs[i].Domain, uuid |-> lvs[i].Schema.UUID,
         a |-> "", b |-> "", skip |-> FALSE]]

\* Mutant of BlockSkips: the floppy marker is not tested.
BlockSkipsCdromOnly(disk) == disk.Device = "cdrom"

BlockSkips(disk) == disk.Device = "cdrom" \/ disk.Device = "fq"

RECURSIVE BlockItems(_)
BlockItems(lvs) ==
    IF lvs = <<>> THEN <<>>
    ELSE LET lv == Head(lvs)
             disks == lv.Schema.Disks
         IN  [k \in 1..Len(disks) |->
                [domain |-> lv.Domain, uuid |-> lv.Schema.UUID,
                 a |-> disks[k].File, b |-> disks[k].Target,
                 skip |-> BlockSkips(disks[k])]]
             \o BlockItems(Tail(lvs))

\* Mutant of InterfaceSkips: the bridge is tested in place of the target device.
InterfaceSkipsNoBridge(iface) == iface.Bridge = ""

InterfaceSkips(iface) == iface.Target = ""

RECURSIVE InterfaceItems(_)
InterfaceItems(lvs) ==
    IF lvs = <<>> THEN <<>>
    ELSE LET lv == Head(lvs)
             ifaces == lv.Schema.Interfaces
         IN  [k \in 1..Len(ifaces) |->
                [domain |-> lv.Domain, uuid |-> lv.Schema.UUID,
                 a |-> ifaces[k].Bridge, b |-> ifaces[k].Target,
                 skip |-> InterfaceSkips(ifaces[k])]]
             \o InterfaceItems(Tail(lvs))

Items(m, lvs) ==
    CASE m = "cpu" -> DomainItems(lvs)
      [] m = "memory" -> DomainItems(lvs)
      [] m = "interface" -> InterfaceItems(lvs)
      [] m = "block" -> BlockItems(lvs)

\* The goroutines a cycle over lvs needs: one per active collector and one per
\* iteration of each of their loops.
RECURSIVE Goroutines(_, _)
Goroutines(active, lvs) ==
    IF active = {} THEN 0
    ELSE LET m == CHOOSE x \in active : TRUE
         IN  1 + WgCounter(m, lvs) + Goroutines(active \ {m}, lvs)

\* The locals of a call of Collect, and of the goroutines it started, while
\* another call takes the steps.
\* A call of Collect that has not begun; with collectPc "absent", no such call.
IdleCycle ==
    [collectPc |-> "idle", domains |-> <<>>, num |-> 0, lvDomains |-> <<>>,
     descIdx |-> 1, toSpawn |-> {}, cycleWg |-> 0,
     modPc |-> [m \in Modules |-> "idle"], modErr |-> [m \in Modules |-> Nil],
     modWg |-> [m \in Modules |-> 0], modPos |-> [m \in Modules |-> 1],
     units |-> [m \in Modules |-> <<>>], sink |-> EmptyBag, started |-> {},
     connectCalls |-> 0, reported |-> "n/a", abort |-> ""]

NoOther == [IdleCycle EXCEPT !.collectPc = "absent"]

\* What the other call of Collect takes of the bounds.
OtherInput == Len(other.lvDomains) + Devices(other.lvDomains)

OtherGoroutines ==
    IF other.collectPc = "absent" THEN 0
    ELSE Goroutines(Collectors, other.lvDomains)

\* A goroutine of Update as it is started.
NewUnit(item) ==
    [domain |-> item.domain, uuid |-> item.uuid, a |-> item.a, b |-> item.b,
     pc |-> "stat", todo |-> <<>>, stat |-> "pending", res |-> <<>>,
     info |-> "none", call |-> <<>>]

----------------------------------------------------------------------------
\* The registry: registerCollector, the flags, NewLibvirtCollector

MaxFilters == 2   \* names in the filters of one NewLibvirtCollector call
MaxCalls == 2     \* calls of NewLibvirtCollector in one run

defaultEnabled == TRUE
defaultDisabled == FALSE

\* The init functions that register a name: cpu.go and cpu_linux.go both
\* register "cpu", the other three files one name each.
InitsOf(name) == IF name = "cpu" THEN 2 ELSE 1

Calls == 1..MaxCalls

FilterLists == SeqsUpTo(Modules, MaxFilters)

NoCollectors == [m \in Modules |-> Nil]

IdleCall ==
    [pc |-> "idle", filters |-> <<>>, f |-> {}, todo |-> {}, key |-> Nil,
     collectors |-> NoCollectors, err |-> Nil, result |-> Nil]

\* The factories of the four collectors return a nil error.
FactoryErrs(key) == {Nil}

\* registerCollector, called from an init function
registerCollector(collector, isDefaultEnabled) ==
    /\ phase = "init"
    /\ factories[collector] < InitsOf(collector)
    /\ collectorState' = [collectorState EXCEPT ![collector] = factories[collector] + 1]
    /\ enabled' = [enabled EXCEPT ![collector] = isDefaultEnabled]
    /\ factories' = [factories EXCEPT ![collector] = @ + 1]
    /\ UNCHANGED <<phase, forcedCollectors, initiatedCollectors,
                   initiatedCollectorsMtx, calls, constructCalls>>
    /\ UNCHANGED <<cycleVars, other, defaultsDisabled>>

\* The command line is parsed: a flag that is given takes the given value and
\* runs collectorFlagAction, a flag that is not given keeps its default.
ParseFlags ==
    /\ phase = "init"
    /\ phase' = "serve"
    /\ \E given \in SUBSET {m \in Modules : collectorState[m] # 0} :
         \E values \in [given -> BOOLEAN] :
            /\ forcedCollectors' = forcedCollectors \cup given
            /\ enabled' = [m \in Modules |->
                              IF m \in given THEN values[m] ELSE enabled[m]]
    /\ UNCHANGED <<factories, collectorState, initiatedCollectors,
                   initiatedCollectorsMtx, calls, constructCalls>>
    /\ UNCHANGED <<cycleVars, other, defaultsDisabled>>

\* Mutant of DisableDefaultCollectors: forcedCollectors is not looked at.
DisableDefaultCollectorsAll ==
    /\ phase = "serve"
    /\ \A c \in Calls : calls[c].pc = "idle"
    /\ enabled' = [m \in Modules |->
                      IF collectorState[m] # 0 THEN FALSE ELSE enabled[m]]
    /\ UNCHANGED <<phase, factories, collectorState, forcedCollectors,
                   initiatedCollectors, initiatedCollectorsMtx, calls,
                   constructCalls>>
    /\ defaultsDisabled' = TRUE
    /\ UNCHANGED <<cycleVars, other>>

\* DisableDefaultCollectors, called by the program between two calls of
\* NewLibvirtCollector.
DisableDefaultCollectors ==
    /\ phase = "serve"
    /\ \A c \in Calls : calls[c].pc = "idle"
    /\ enabled' = [m \in Modules |->
                      IF collectorState[m] # 0 /\ m \notin forcedCollectors
                        THEN FALSE ELSE enabled[m]]
    /\ UNCHANGED <<phase, factories, collectorState, forcedCollectors,
                   initiatedCollectors, initiatedCollectorsMtx, calls,
                   constructCalls>>
    /\ defaultsDisabled' = TRUE
    /\ UNCHANGED <<cycleVars, other>>

\* Mutant of FilterError: the enabled flag of a filtered name is not looked at.
RECURSIVE FilterErrorMissingOnly(_)
FilterErrorMissingOnly(filters) ==
    IF filters = <<>> THEN Nil
    ELSE IF collectorState[Head(filters)] = 0
           THEN <<"missing collector", Head(filters)>>
    ELSE FilterErrorMissingOnly(Tail(filters))

\* The loop over filters: the error of the first name that is not registered
\* or not enabled, or Nil.
RECURSIVE FilterError(_)
FilterError(filters) ==
    IF filters = <<>> THEN Nil
    ELSE IF collectorState[Head(filters)] = 0
           THEN <<"missing collector", Head(filters)>>
    ELSE IF ~enabled[Head(filters)]
           THEN <<"disabled collector", Head(filters)>>
    ELSE FilterError(Tail(filters))

\* Mutant of CallNew: the mutex is taken before the filters are validated and
\* the return on a bad filter leaves it held.
CallNewLockFirst(c, filters) ==
    /\ phase = "serve"
    /\ calls[c].pc = "idle"
    /\ LET err == FilterError(filters)
       IN  /\ calls' = [calls EXCEPT ![c] =
                        IF err # Nil
                          THEN [IdleCall EXCEPT !.pc = "done", !.filters = filters,
                                                !.err = err]
                          ELSE [IdleCall EXCEPT !.pc = "lock", !.filters = filters,
                                                !.f = {filters[i] : i \in 1..Len(filters)}]]
           /\ IF err # Nil
                THEN /\ initiatedCollectorsMtx = 0
                     /\ initiatedCollectorsMtx' = c
                ELSE initiatedCollectorsMtx' = initiatedCollectorsMtx
    /\ UNCHANGED <<phase, factories, collectorState, enabled, forcedCollectors,
                   initiatedCollectors, constructCalls>>
    /\ UNCHANGED <<cycleVars, other, defaultsDisabled>>

\* NewLibvirtCollector is called: the loop over filters
CallNew(c, filters) ==
    /\ phase = "serve"
    /\ calls[c].pc = "idle"
    /\ LET err == FilterError(filters)
       IN  calls' = [calls EXCEPT ![c] =
                        IF err # Nil
                          THEN [IdleCall EXCEPT !.pc = "done", !.filters = filters,
                                                !.err = err]
                          ELSE [IdleCall EXCEPT !.pc = "lock", !.filters = filters,
                                                !.f = {filters[i] : i \in 1..Len(filters)}]]
    /\ UNCHANGED <<phase, factories, collectorState, enabled, forcedCollectors,
                   initiatedCollectors, initiatedCollectorsMtx, constructCalls>>
    /\ UNCHANGED <<cycleVars, other, defaultsDisabled>>

\* Mutant of Lock: the mutex is not taken.
LockNoMutex(c) ==
    /\ calls[c].pc = "lock"
    /\ initiatedCollectorsMtx' = initiatedCollectorsMtx
    /\ calls' = [calls EXCEPT ![c].pc = "loop",
                              ![c].todo = {m \in Modules : collectorState[m] # 0}]
    /\ UNCHANGED <<phase, factories, collectorState, enabled, forcedCollectors,
                   initiatedCollectors, constructCalls>>
    /\ UNCHANGED <<cycleVars, other, defaultsDisabled>>

\* initiatedCollectorsMtx.Lock(), and the range over collectorState begins
Lock(c) ==
    /\ calls[c].pc = "lock"
    /\ initiatedCollectorsMtx = 0
    /\ initiatedCollectorsMtx' = c
    /\ calls' = [calls EXCEPT ![c].pc = "loop",
                              ![c].todo = {m \in Modules : collectorState[m] # 0}]
    /\ UNCHANGED <<phase, factories, collectorState, enabled, forcedCollectors,
                   initiatedCollectors, constructCalls>>
    /\ UNCHANGED <<cycleVars, other, defaultsDisabled>>

\* Mutant of Iterate: the filters are not applied.
IterateNoFilter(c) ==
    /\ calls[c].pc = "loop"
    /\ \E key \in calls[c].todo :
         IF ~enabled[key]
           THEN calls' = [calls EXCEPT ![c].todo = @ \ {key}]
         ELSE IF initiatedCollectors[key] # Nil
           THEN calls' = [calls EXCEPT ![c].todo = @ \ {key},
                                       ![c].collectors[key] = initiatedCollectors[key]]
         ELSE calls' = [calls EXCEPT ![c].todo = @ \ {key},
                                     ![c].key = key,
                                     ![c].pc = "construct"]
    /\ UNCHANGED <<phase, factories, collectorState, enabled, forcedCollectors,
                   initiatedCollectors, initiatedCollectorsMtx, constructCalls>>
    /\ UNCHANGED <<cycleVars, other, defaultsDisabled>>

\* One iteration of the range over collectorState (in no particular order),
\* up to the lookup in initiatedCollectors.
Iterate(c) ==
    /\ calls[c].pc = "loop"
    /\ \E key \in calls[c].todo :
         LET f == calls[c].f
         IN  IF ~enabled[key] \/ (Cardinality(f) > 0 /\ key \notin f)
               THEN calls' = [calls EXCEPT ![c].todo = @ \ {key}]
             ELSE IF initiatedCollectors[key] # Nil
               THEN calls' = [calls EXCEPT ![c].todo = @ \ {key},
                                           ![c].collectors[key] = initiatedCollectors[key]]
             ELSE calls' = [calls EXCEPT ![c].todo = @ \ {key},
                                         ![c].key = key,
                                         ![c].pc = "construct"]
    /\ UNCHANGED <<phase, factories, collectorState, enabled, forcedCollectors,
                   initiatedCollectors, initiatedCollectorsMtx, constructCalls>>
    /\ UNCHANGED <<cycleVars, other, defaultsDisabled>>

\* factories[key](...) and the two stores; a failed factory ends the call.
Construct(c) ==
    /\ calls[c].pc = "construct"
    /\ LET key == calls[c].key
       IN  /\ constructCalls' = [constructCalls EXCEPT ![key] = @ + 1]
           /\ \E err \in FactoryErrs(key) :
                IF err # Nil
                  THEN /\ calls' = [calls EXCEPT ![c].pc = "done", ![c].err = err]
                       /\ initiatedCollectorsMtx' =
                            IF initiatedCollectorsMtx = c THEN 0
                            ELSE initiatedCollectorsMtx
                       /\ UNCHANGED initiatedCollectors
                  ELSE LET collector == <<key, factories[key], constructCalls[key] + 1>>
                       IN  /\ calls' = [calls EXCEPT ![c].collectors[key] = collector,
                                                     ![c].key = Nil,
                                                     ![c].pc = "loop"]
                           /\ initiatedCollectors' =
                                [initiatedCollectors EXCEPT ![key] = collector]
                           /\ UNCHANGED initiatedCollectorsMtx
    /\ UNCHANGED <<phase, factories, collectorState, enabled, forcedCollectors>>
    /\ UNCHANGED <<cycleVars, other, defaultsDisabled>>

\* return &LibvirtCollector{Collectors: collectors, ...}, nil and the deferred
\* Unlock
Return(c) ==
    /\ calls[c].pc = "loop"
    /\ calls[c].todo = {}
    /\ calls' = [calls EXCEPT ![c].pc = "done",
                              ![c].result = calls[c].collectors]
    /\ initiatedCollectorsMtx' =
         IF initiatedCollectorsMtx = c THEN 0 ELSE initiatedCollectorsMtx
    /\ UNCHANGED <<phase, factories, collectorState, enabled, forcedCollectors,
                   initiatedCollectors, constructCalls>>
    /\ UNCHANGED <<cycleVars, other, defaultsDisabled>>

\* The registry as Collect finds it: the four collectors registered and enabled,
\* those of n.Collectors constructed by the call that made n.
RegistryServing ==
    /\ phase = "serve"
    /\ factories = [m \in Modules |-> 1]
    /\ collectorState = [m \in Modules |-> 1]
    /\ enabled = [m \in Modules |-> TRUE]
    /\ forcedCollectors = {}
    /\ initiatedCollectors =
         [m \in Modules |-> IF m \in Collectors THEN <<m, 1, 1>> ELSE Nil]
    /\ initiatedCollectorsMtx = 0
    /\ calls = [c \in Calls |-> IdleCall]
    /\ constructCalls = [m \in Modules |-> IF m \in Collectors THEN 1 ELSE 0]
    /\ defaultsDisabled = FALSE

----------------------------------------------------------------------------
\* LibvirtCollector.Collect

Init ==
    /\ Collectors \in SUBSET Modules
    /\ pLibvirt \in {Nil, Client}
    /\ connected \in BOOLEAN
    /\ collectPc = "idle"
    /\ domains = <<>>
    /\ num = 0
    /\ lvDomains = <<>>
    /\ descIdx = 1
    /\ toSpawn = {}
    /\ cycleWg = 0
    /\ modPc = [m \in Modules |-> "idle"]
    /\ modErr = [m \in Modules |-> Nil]
    /\ modWg = [m \in Modules |-> 0]
    /\ modPos = [m \in Modules |-> 1]
    /\ units = [m \in Modules |-> <<>>]
    /\ sink = EmptyBag
    /\ started = {}
    /\ connectCalls = 0
    /\ reported = "n/a"
    /\ abort = ""
    /\ RegistryServing
    /\ other = NoOther

\* Mutant of CollectEntry: Connect is called without asking IsConnected first.
CollectEntryAlwaysConnect ==
    /\ collectPc \in {"idle", "returned"}
    /\ domains' = <<>>
    /\ num' = 0
    /\ lvDomains' = <<>>
    /\ descIdx' = 1
    /\ toSpawn' = {}
    /\ cycleWg' = 0
    /\ modPc' = [m \in Modules |-> "idle"]
    /\ modErr' = [m \in Modules |-> Nil]
    /\ modWg' = [m \in Modules |-> 0]
    /\ modPos' = [m \in Modules |-> 1]
    /\ units' = [m \in Modules |-> <<>>]
    /\ sink' = EmptyBag
    /\ started' = {}
    /\ connectCalls' = 0
    /\ IF pLibvirt = Nil
         THEN /\ collectPc' = "returned"
              /\ abort' = "libvirt not created"
              /\ reported' = "n/a"
         ELSE /\ collectPc' = "connect"
              /\ abort' = ""
              /\ reported' = IF connected THEN "yes" ELSE "no"
    /\ UNCHANGED nonCycleVars
    /\ UNCHANGED <<Collectors, pLibvirt, connected>>

\* Collect is called with a fresh channel; the connection checks.
CollectEntry ==
    /\ collectPc \in {"idle", "returned"}
    /\ domains' = <<>>
    /\ num' = 0
    /\ lvDomains' = <<>>
    /\ descIdx' = 1
    /\ toSpawn' = {}
    /\ cycleWg' = 0
    /\ modPc' = [m \in Modules |-> "idle"]
    /\ modErr' = [m \in Modules |-> Nil]
    /\ modWg' = [m \in Modules |-> 0]
    /\ modPos' = [m \in Modules |-> 1]
    /\ units' = [m \in Modules |-> <<>>]
    /\ sink' = EmptyBag
    /\ started' = {}
    /\ connectCalls' = 0
    /\ IF pLibvirt = Nil
         THEN /\ collectPc' = "returned"
              /\ abort' = "libvirt not created"
              /\ reported' = "n/a"
         ELSE /\ collectPc' = IF connected THEN "list" ELSE "connect"
              /\ abort' = ""
              /\ reported' = IF connected THEN "yes" ELSE "no"
    /\ UNCHANGED nonCycleVars
    /\ UNCHANGED <<Collectors, pLibvirt, connected>>

\* n.pLibvirt.Connect()
CollectConnect ==
    /\ collectPc = "connect"
    /\ connectCalls' = connectCalls + 1
    /\ \/ /\ connected' = TRUE
          /\ collectPc' = "list"
          /\ abort' = abort
       \/ /\ connected' = connected
          /\ collectPc' = "returned"
          /\ abort' = "libvirt could not connect"
    /\ UNCHANGED nonCycleVars
    /\ UNCHANGED <<Collectors, pLibvirt, domains, num, lvDomains, descIdx, toSpawn,
                   cycleWg, modPc, modErr, modWg, modPos, units, sink, started,
                   reported>>

\* The count ConnectListAllDomains returns alongside n handles.
ListCounts(n) == {n}

\* Mutant of FanOut: the wait group is sized one short.
FanOutShort ==
    /\ cycleWg' = Cardinality(Collectors) - 1
    /\ toSpawn' = Collectors
    /\ collectPc' = IF Collectors = {} THEN "wait" ELSE "spawn"

\* wg.Add(len(n.Collectors)) and the start of the loop over n.Collectors.
FanOut ==
    /\ cycleWg' = Cardinality(Collectors)
    /\ toSpawn' = Collectors
    /\ collectPc' = IF Collectors = {} THEN "wait" ELSE "spawn"

\* Mutant of CollectList: Collect returns when the listing has no domains.
CollectListReturnsOnEmpty ==
    /\ collectPc = "list"
    /\ \/ /\ collectPc' = "returned"
          /\ abort' = "failed to list domains"
          /\ UNCHANGED <<domains, num, lvDomains, descIdx, toSpawn, cycleWg>>
       \/ \E n \in 0..MaxInput : \E c \in ListCounts(n) :
            /\ Goroutines(Collectors, [i \in 1..c |-> ZeroLvDomain]) + OtherGoroutines
                 <= MaxGoroutines
            /\ c + OtherInput <= MaxInput
            /\ domains' = [i \in 1..n |-> i]
            /\ num' = c
            /\ lvDomains' = [i \in 1..c |-> ZeroLvDomain]
            /\ descIdx' = 1
            /\ IF n = 0
                 THEN /\ collectPc' = "returned"
                      /\ abort' = "no domains found"
                      /\ UNCHANGED <<toSpawn, cycleWg>>
                 ELSE /\ collectPc' = "desc"
                      /\ abort' = abort
                      /\ UNCHANGED <<toSpawn, cycleWg>>
    /\ UNCHANGED nonCycleVars
    /\ UNCHANGED <<Collectors, pLibvirt, connected, modPc, modErr, modWg, modPos,
                   units, sink, started, connectCalls, reported>>

\* Mutant of CollectList: a failed listing is taken for an empty list.
CollectListIgnoresError ==
    /\ collectPc = "list"
    /\ \/ /\ abort' = "failed to list domains"
          /\ FanOut
          /\ UNCHANGED <<domains, num, lvDomains, descIdx>>
       \/ \E n \in 0..MaxInput : \E c \in ListCounts(n) :
            /\ Goroutines(Collectors, [i \in 1..c |-> ZeroLvDomain]) + OtherGoroutines
                 <= MaxGoroutines
            /\ c + OtherInput <= MaxInput
            /\ domains' = [i \in 1..n |-> i]
            /\ num' = c
            /\ lvDomains' = [i \in 1..c |-> ZeroLvDomain]
            /\ descIdx' = 1
            /\ abort' = abort
            /\ IF n = 0 THEN FanOut
               ELSE /\ collectPc' = "desc"
                    /\ UNCHANGED <<toSpawn, cycleWg>>
    /\ UNCHANGED nonCycleVars
    /\ UNCHANGED <<Collectors, pLibvirt, connected, modPc, modErr, modWg, modPos,
                   units, sink, started, connectCalls, reported>>

\* n.pLibvirt.ConnectListAllDomains and make([]LvDomain, num)
CollectList ==
    /\ collectPc = "list"
    /\ \/ /\ collectPc' = "returned"
          /\ abort' = "failed to list domains"
          /\ UNCHANGED <<domains, num, lvDomains, descIdx, toSpawn, cycleWg>>
       \/ \E n \in 0..MaxInput : \E c \in ListCounts(n) :
            /\ Goroutines(Collectors, [i \in 1..c |-> ZeroLvDomain]) + OtherGoroutines
                 <= MaxGoroutines
            /\ c + OtherInput <= MaxInput
            /\ domains' = [i \in 1..n |-> i]
            /\ num' = c
            /\ lvDomains' = [i \in 1..c |-> ZeroLvDomain]
            /\ descIdx' = 1
            /\ abort' = abort
            /\ IF n = 0 THEN FanOut
               ELSE /\ collectPc' = "desc"
                    /\ UNCHANGED <<toSpawn, cycleWg>>
    /\ UNCHANGED nonCycleVars
    /\ UNCHANGED <<Collectors, pLibvirt, connected, modPc, modErr, modWg, modPos,
                   units, sink, started, connectCalls, reported>>

\* ConnectListAllDomains returns n handles and, alongside, a count that is not
\* n; make([]LvDomain, num) takes the count.
CollectListMismatch ==
    /\ collectPc = "list"
    /\ \E n \in 0..MaxInput : \E c \in (0..MaxInput) \ {n} :
         /\ Goroutines(Collectors, [i \in 1..c |-> ZeroLvDomain]) + OtherGoroutines
              <= MaxGoroutines
         /\ c + OtherInput <= MaxInput
         /\ domains' = [i \in 1..n |-> i]
         /\ num' = c
         /\ lvDomains' = [i \in 1..c |-> ZeroLvDomain]
         /\ descIdx' = 1
         /\ abort' = abort
         /\ IF n = 0 THEN FanOut
            ELSE /\ collectPc' = "desc"
                 /\ UNCHANGED <<toSpawn, cycleWg>>
    /\ UNCHANGED nonCycleVars
    /\ UNCHANGED <<Collectors, pLibvirt, connected, modPc, modErr, modWg, modPos,
                   units, sink, started, connectCalls, reported>>

\* Mutant of CollectDesc: a domain whose description cannot be fetched or
\* parsed is skipped (continue) and the cycle goes on.
CollectDescSkips ==
    /\ collectPc = "desc"
    /\ \/ /\ abort' \in {"failed to get domain xml", "failed to parse domain xml"}
          /\ descIdx' = descIdx + 1
          /\ lvDomains' = lvDomains
          /\ IF descIdx = Len(domains) THEN FanOut
             ELSE /\ collectPc' = "desc"
                  /\ UNCHANGED <<toSpawn, cycleWg>>
       \/ \E schema \in Schemas(domains[descIdx]) :
            LET lvs == [lvDomains EXCEPT ![descIdx] =
                           [Domain |-> domains[descIdx], Schema |-> schema]]
            IN  /\ Len(lvs) + Devices(lvs) + OtherInput <= MaxInput
                /\ Goroutines(Collectors, lvs) + OtherGoroutines <= MaxGoroutines
                /\ lvDomains' = lvs
                /\ descIdx' = descIdx + 1
                /\ abort' = abort
                /\ IF descIdx = Len(domains) THEN FanOut
                   ELSE /\ collectPc' = "desc"
                        /\ UNCHANGED <<toSpawn, cycleWg>>
    /\ UNCHANGED nonCycleVars
    /\ UNCHANGED <<Collectors, pLibvirt, connected, domains, num, modPc, modErr,
                   modWg, modPos, units, sink, started, connectCalls, reported>>

\* One iteration of the loop over domains: DomainGetXMLDesc, NewDomainFromXML
\* and the store into lvDomains[i].
CollectDesc ==
    /\ collectPc = "desc"
    /\ \/ /\ collectPc' = "returned"
          /\ abort' = "failed to get domain xml"
          /\ UNCHANGED <<lvDomains, descIdx, toSpawn, cycleWg>>
       \/ /\ collectPc' = "returned"
          /\ abort' = "failed to parse domain xml"
          /\ UNCHANGED <<lvDomains, descIdx, toSpawn, cycleWg>>
       \/ \E schema \in Schemas(domains[descIdx]) :
            IF descIdx > Len(lvDomains)
              THEN /\ collectPc' = "panic"
                   /\ abort' = "index out of range"
                   /\ UNCHANGED <<lvDomains, descIdx, toSpawn, cycleWg>>
              ELSE LET lvs == [lvDomains EXCEPT ![descIdx] =
                                  [Domain |-> domains[descIdx], Schema |-> schema]]
                   IN  /\ Len(lvs) + Devices(lvs) + OtherInput <= MaxInput
                       /\ Goroutines(Collectors, lvs) + OtherGoroutines <= MaxGoroutines
                       /\ lvDomains' = lvs
                       /\ descIdx' = descIdx + 1
                       /\ abort' = abort
                       /\ IF descIdx = Len(domains) THEN FanOut
                          ELSE /\ collectPc' = "desc"
                               /\ UNCHANGED <<toSpawn, cycleWg>>
    /\ UNCHANGED nonCycleVars
    /\ UNCHANGED <<Collectors, pLibvirt, connected, domains, num, modPc, modErr,
                   modWg, modPos, units, sink, started, connectCalls, reported>>

\* One iteration of the loop over n.Collectors: go func(name, c) {...}
CollectSpawn ==
    /\ collectPc = "spawn"
    /\ \E name \in toSpawn :
         /\ toSpawn' = toSpawn \ {name}
         /\ modPc' = [modPc EXCEPT ![name] = "execute"]
         /\ collectPc' = IF toSpawn = {name} THEN "wait" ELSE "spawn"
    /\ UNCHANGED nonCycleVars
    /\ UNCHANGED <<Collectors, pLibvirt, connected, domains, num, lvDomains, descIdx,
                   cycleWg, modErr, modWg, modPos, units, sink, started,
                   connectCalls, reported, abort>>

\* Mutant of CollectWait: Collect returns without wg.Wait().
CollectWaitNoWait ==
    /\ collectPc = "wait"
    /\ collectPc' = "returned"
    /\ abort' = "scrape finished"
    /\ UNCHANGED nonCycleVars
    /\ UNCHANGED <<Collectors, pLibvirt, connected, domains, num, lvDomains, descIdx,
                   toSpawn, cycleWg, modPc, modErr, modWg, modPos, units, sink,
                   started, connectCalls, reported>>

\* wg.Wait() and the return
CollectWait ==
    /\ collectPc = "wait"
    /\ cycleWg = 0
    /\ collectPc' = "returned"
    /\ abort' = "scrape finished"
    /\ UNCHANGED nonCycleVars
    /\ UNCHANGED <<Collectors, pLibvirt, connected, domains, num, lvDomains, descIdx,
                   toSpawn, cycleWg, modPc, modErr, modWg, modPos, units, sink,
                   started, connectCalls, reported>>

\* The connection to the hypervisor is lost. The program observes the
\* connection through IsConnected() alone, so a loss is taken at a moment
\* when some caller is about to ask: Collect at its entry, Update at its head.
ConnDrop ==
    /\ pLibvirt = Client
    /\ connected
    /\ \/ collectPc \in {"idle", "returned"}
       \/ \E m \in Modules : modPc[m] = "execute"
    /\ connected' = FALSE
    /\ UNCHANGED nonCycleVars
    /\ UNCHANGED <<Collectors, pLibvirt, collectPc, domains, num, lvDomains, descIdx,
                   toSpawn, cycleWg, modPc, modErr, modWg, modPos, units, sink,
                   started, connectCalls, reported, abort>>

----------------------------------------------------------------------------
\* execute and Collector.Update (cpu, memory, interface, block)

\* Mutant of NotProvided: the check of the domain list is missing.
NotProvidedNoListCheck(client, isConnected, lvs) ==
    \/ client = Nil
    \/ ~isConnected

\* The three checks at the head of every Update.
NotProvided(client, isConnected, lvs) ==
    \/ client = Nil
    \/ ~isConnected
    \/ Len(lvs) = 0

\* execute calls c.Update: the checks, wgCounter and wg.Add(wgCounter).
ModUpdate(m) ==
    /\ modPc[m] = "execute"
    /\ started' = started \cup {m}
    /\ IF NotProvided(pLibvirt, connected, lvDomains)
         THEN /\ modErr' = [modErr EXCEPT ![m] = ErrNotProvided]
              /\ modPc' = [modPc EXCEPT ![m] = "duration"]
              /\ UNCHANGED <<modWg, modPos>>
         ELSE /\ modErr' = modErr
              /\ modWg' = [modWg EXCEPT ![m] = WgCounter(m, lvDomains)]
              /\ modPos' = [modPos EXCEPT ![m] = 1]
              /\ modPc' = [modPc EXCEPT ![m] =
                              IF Items(m, lvDomains) = <<>> THEN "wait" ELSE "dispatch"]
    /\ UNCHANGED nonCycleVars
    /\ UNCHANGED <<Collectors, pLibvirt, connected, collectPc, domains, num,
                   lvDomains, descIdx, toSpawn, cycleWg, units, sink, connectCalls,
                   reported, abort>>

\* Mutant of ModDispatch: the skip branch continues without wg.Done().
ModDispatchSkipNoDone(m) ==
    /\ modPc[m] = "dispatch"
    /\ LET items == Items(m, lvDomains)
           item == items[modPos[m]]
       IN  /\ IF item.skip
                THEN /\ modWg' = modWg
                     /\ units' = units
                ELSE /\ units' = [units EXCEPT ![m] = Append(@, NewUnit(item))]
                     /\ modWg' = modWg
           /\ modPos' = [modPos EXCEPT ![m] = @ + 1]
           /\ modPc' = [modPc EXCEPT ![m] =
                           IF modPos[m] = Len(items) THEN "wait" ELSE "dispatch"]
    /\ UNCHANGED nonCycleVars
    /\ UNCHANGED <<Collectors, pLibvirt, connected, collectPc, domains, num,
                   lvDomains, descIdx, toSpawn, cycleWg, modErr, sink, started,
                   connectCalls, reported, abort>>

\* One iteration of Update's loop: skip with wg.Done(), or start a goroutine.
ModDispatch(m) ==
    /\ modPc[m] = "dispatch"
    /\ LET items == Items(m, lvDomains)
           item == items[modPos[m]]
       IN  /\ IF item.skip
                THEN /\ modWg' = [modWg EXCEPT ![m] = @ - 1]
                     /\ units' = units
                ELSE /\ units' = [units EXCEPT ![m] = Append(@, NewUnit(item))]
                     /\ modWg' = modWg
           /\ modPos' = [modPos EXCEPT ![m] = @ + 1]
           /\ modPc' = [modPc EXCEPT ![m] =
                           IF modPos[m] = Len(items) THEN "wait" ELSE "dispatch"]
    /\ UNCHANGED nonCycleVars
    /\ UNCHANGED <<Collectors, pLibvirt, connected, collectPc, domains, num,
                   lvDomains, descIdx, toSpawn, cycleWg, modErr, sink, started,
                   connectCalls, reported, abort>>

\* Mutant of StatCall: the goroutine reads the loop variable of Update, which by
\* then is at the last domain, in place of its own parameter.
StatCallLoopVariable(m, u) ==
    IF m \in {"interface", "block"}
      THEN <<lvDomains[Len(lvDomains)].Domain, u.b>>
      ELSE <<lvDomains[Len(lvDomains)].Domain>>

\* The arguments of the stat call of a goroutine: its domain parameter and, for
\* DomainInterfaceStats and DomainBlockStats, its device name.
StatCall(m, u) ==
    IF m \in {"interface", "block"} THEN <<u.domain, u.b>> ELSE <<u.domain>>

\* Where a goroutine goes once it has sent the metrics of one call: the block
\* goroutine calls DomainGetBlockInfo after the block stats, the others finish.
AfterSend(m, pc) == IF m = "block" /\ pc = "send" THEN "info" ELSE "wgdone"

\* Mutant of UnitStat: the return after a failed call is missing, the goroutine
\* goes on to send the metrics of whatever the call left in its results.
UnitStatNoReturn(m, k) ==
    /\ k \in 1..Len(units[m])
    /\ units[m][k].pc = "stat"
    /\ \E failed \in BOOLEAN : \E r \in StatResults(m) :
         LET todo == StatSamples(m, r, units[m][k])
         IN  units' = [units EXCEPT ![m][k].stat = IF failed THEN "err" ELSE "ok",
                                    ![m][k].call = StatCall(m, units[m][k]),
                                    ![m][k].res = r,
                                    ![m][k].todo = todo,
                                    ![m][k].pc = IF todo = <<>>
                                                   THEN AfterSend(m, "send")
                                                   ELSE "send"]
    /\ UNCHANGED nonCycleVars
    /\ UNCHANGED <<Collectors, pLibvirt, connected, collectPc, domains, num,
                   lvDomains, descIdx, toSpawn, cycleWg, modPc, modErr, modWg,
                   modPos, sink, started, connectCalls, reported, abort>>

\* Mutant of UnitStat: the goroutine returns from a failed call without
\* wg.Done().
UnitStatErrNoDone(m, k) ==
    /\ k \in 1..Len(units[m])
    /\ units[m][k].pc = "stat"
    /\ \/ units' = [units EXCEPT ![m][k].pc = "exit", ![m][k].stat = "err",
                                   ![m][k].call = StatCall(m, units[m][k])]
       \/ \E r \in StatResults(m) :
            LET todo == StatSamples(m, r, units[m][k])
            IN  units' = [units EXCEPT ![m][k].stat = "ok",
                                       ![m][k].call = StatCall(m, units[m][k]),
                                       ![m][k].res = r,
                                       ![m][k].todo = todo,
                                       ![m][k].pc = IF todo = <<>>
                                                      THEN AfterSend(m, "send")
                                                      ELSE "send"]
    /\ UNCHANGED nonCycleVars
    /\ UNCHANGED <<Collectors, pLibvirt, connected, collectPc, domains, num,
                   lvDomains, descIdx, toSpawn, cycleWg, modPc, modErr, modWg,
                   modPos, sink, started, connectCalls, reported, abort>>

\* The stat call of a goroutine: DomainGetInfo, DomainMemoryStats,
\* DomainInterfaceStats or DomainBlockStats.
UnitStat(m, k) ==
    /\ k \in 1..Len(units[m])
    /\ units[m][k].pc = "stat"
    /\ \/ units' = [units EXCEPT ![m][k].pc = "wgdone", ![m][k].stat = "err",
                                   ![m][k].call = StatCall(m, units[m][k])]
       \/ \E r \in StatResults(m) :
            LET todo == StatSamples(m, r, units[m][k])
            IN  units' = [units EXCEPT ![m][k].stat = "ok",
                                       ![m][k].call = StatCall(m, units[m][k]),
                                       ![m][k].res = r,
                                       ![m][k].todo = todo,
                                       ![m][k].pc = IF todo = <<>>
                                                      THEN AfterSend(m, "send")
                                                      ELSE "send"]
    /\ UNCHANGED nonCycleVars
    /\ UNCHANGED <<Collectors, pLibvirt, connected, collectPc, domains, num,
                   lvDomains, descIdx, toSpawn, cycleWg, modPc, modErr, modWg,
                   modPos, sink, started, connectCalls, reported, abort>>

\* The stat call of a goroutine does not return: the goroutine stays in the
\* call, which has neither a timeout nor a context to cancel it.
UnitHang(m, k) ==
    /\ k \in 1..Len(units[m])
    /\ units[m][k].pc = "stat"
    /\ units' = [units EXCEPT ![m][k].pc = "hung",
                              ![m][k].call = StatCall(m, units[m][k])]
    /\ UNCHANGED nonCycleVars
    /\ UNCHANGED <<Collectors, pLibvirt, connected, collectPc, domains, num,
                   lvDomains, descIdx, toSpawn, cycleWg, modPc, modErr, modWg,
                   modPos, sink, started, connectCalls, reported, abort>>

\* ch <- metric
UnitSend(m, k) ==
    /\ k \in 1..Len(units[m])
    /\ units[m][k].pc \in {"send", "send2"}
    /\ LET u == units[m][k]
       IN  /\ sink' = Send(sink, Head(u.todo))
           /\ units' = [units EXCEPT ![m][k].todo = Tail(u.todo),
                                     ![m][k].pc = IF Tail(u.todo) = <<>>
                                                    THEN AfterSend(m, u.pc)
                                                    ELSE u.pc]
    /\ UNCHANGED nonCycleVars
    /\ UNCHANGED <<Collectors, pLibvirt, connected, collectPc, domains, num,
                   lvDomains, descIdx, toSpawn, cycleWg, modPc, modErr, modWg,
                   modPos, started, connectCalls, reported, abort>>

\* Mutant of UnitInfo: the three sizes are sent whether or not the call failed.
UnitInfoIgnoresError(m, k) ==
    /\ k \in 1..Len(units[m])
    /\ units[m][k].pc = "info"
    /\ LET u == units[m][k]
       IN  \E failed \in BOOLEAN : \E r \in BlockInfoResults :
                units' = [units EXCEPT ![m][k].info = IF failed THEN "err" ELSE "ok",
                                       ![m][k].todo = BlockInfoSamples(r, u.uuid, u.a, u.b),
                                       ![m][k].pc = "send2"]
    /\ UNCHANGED nonCycleVars
    /\ UNCHANGED <<Collectors, pLibvirt, connected, collectPc, domains, num,
                   lvDomains, descIdx, toSpawn, cycleWg, modPc, modErr, modWg,
                   modPos, sink, started, connectCalls, reported, abort>>

\* pLibvirt.DomainGetBlockInfo in the block goroutine
UnitInfo(m, k) ==
    /\ k \in 1..Len(units[m])
    /\ units[m][k].pc = "info"
    /\ LET u == units[m][k]
       IN  \/ units' = [units EXCEPT ![m][k].pc = "wgdone", ![m][k].info = "err"]
           \/ \E r \in BlockInfoResults :
                units' = [units EXCEPT ![m][k].info = "ok",
                                       ![m][k].todo = BlockInfoSamples(r, u.uuid, u.a, u.b),
                                       ![m][k].pc = "send2"]
    /\ UNCHANGED nonCycleVars
    /\ UNCHANGED <<Collectors, pLibvirt, connected, collectPc, domains, num,
                   lvDomains, descIdx, toSpawn, cycleWg, modPc, modErr, modWg,
                   modPos, sink, started, connectCalls, reported, abort>>

\* Mutant of UnitDone: the goroutine ends without wg.Done().
UnitDoneNoSignal(m, k) ==
    /\ k \in 1..Len(units[m])
    /\ units[m][k].pc = "wgdone"
    /\ units' = [units EXCEPT ![m][k].pc = "exit"]
    /\ modWg' = modWg
    /\ UNCHANGED nonCycleVars
    /\ UNCHANGED <<Collectors, pLibvirt, connected, collectPc, domains, num,
                   lvDomains, descIdx, toSpawn, cycleWg, modPc, modErr, modPos,
                   sink, started, connectCalls, reported, abort>>

\* wg.Done() at the end of a goroutine
UnitDone(m, k) ==
    /\ k \in 1..Len(units[m])
    /\ units[m][k].pc = "wgdone"
    /\ units' = [units EXCEPT ![m][k].pc = "exit"]
    /\ modWg' = [modWg EXCEPT ![m] = @ - 1]
    /\ UNCHANGED nonCycleVars
    /\ UNCHANGED <<Collectors, pLibvirt, connected, collectPc, domains, num,
                   lvDomains, descIdx, toSpawn, cycleWg, modPc, modErr, modPos,
                   sink, started, connectCalls, reported, abort>>

\* Mutant of ModWait: the wait gives up while goroutines are outstanding.
ModWaitTimesOut(m) ==
    /\ modPc[m] = "wait"
    /\ modErr' = [modErr EXCEPT ![m] = Nil]
    /\ modPc' = [modPc EXCEPT ![m] = "duration"]
    /\ UNCHANGED nonCycleVars
    /\ UNCHANGED <<Collectors, pLibvirt, connected, collectPc, domains, num,
                   lvDomains, descIdx, toSpawn, cycleWg, modWg, modPos, units, sink,
                   started, connectCalls, reported, abort>>

\* wg.Wait() and return nil
ModWait(m) ==
    /\ modPc[m] = "wait"
    /\ modWg[m] = 0
    /\ modErr' = [modErr EXCEPT ![m] = Nil]
    /\ modPc' = [modPc EXCEPT ![m] = "duration"]
    /\ UNCHANGED nonCycleVars
    /\ UNCHANGED <<Collectors, pLibvirt, connected, collectPc, domains, num,
                   lvDomains, descIdx, toSpawn, cycleWg, modWg, modPos, units, sink,
                   started, connectCalls, reported, abort>>

\* Mutant of SuccessValue: an Update that was given nothing to collect, or found
\* nothing, is not counted as a failure.
SuccessValueLenient(err) ==
    IF err # Nil
      THEN IF IsNoDataError(err) THEN 1
           ELSE IF IsNotProvidedError(err) THEN 1
           ELSE 0
      ELSE 1

\* execute: success is 0 for every error, whatever its kind, and 1 for none.
SuccessValue(err) ==
    IF err # Nil
      THEN IF IsNoDataError(err) THEN 0
           ELSE IF IsNotProvidedError(err) THEN 0
           ELSE 0
      ELSE 1

\* The elapsed time of one Update, as a value of the duration metric.
Elapsed == <<0, 1>>

\* Mutant of ModDuration: the duration is sent as soon as Update has started
\* its goroutines, without the wait for them.
ModDurationBeforeWait(m) ==
    /\ modPc[m] \in {"wait", "duration"}
    /\ sink' = Send(sink, mustNewConstMetric(scrapeDurationDesc, Elapsed, <<m>>))
    /\ modPc' = [modPc EXCEPT ![m] = "success"]
    /\ UNCHANGED nonCycleVars
    /\ UNCHANGED <<Collectors, pLibvirt, connected, collectPc, domains, num,
                   lvDomains, descIdx, toSpawn, cycleWg, modErr, modWg, modPos,
                   units, started, connectCalls, reported, abort>>

\* ch <- MustNewConstMetric(scrapeDurationDesc, GaugeValue, duration, name)
ModDuration(m) ==
    /\ modPc[m] = "duration"
    /\ sink' = Send(sink, mustNewConstMetric(scrapeDurationDesc, Elapsed, <<m>>))
    /\ modPc' = [modPc EXCEPT ![m] = "success"]
    /\ UNCHANGED nonCycleVars
    /\ UNCHANGED <<Collectors, pLibvirt, connected, collectPc, domains, num,
                   lvDomains, descIdx, toSpawn, cycleWg, modErr, modWg, modPos,
                   units, started, connectCalls, reported, abort>>

\* Mutant of ModSuccess: the success metric is sent only for an Update that
\* returned nil.
ModSuccessOnlyOnNil(m) ==
    /\ modPc[m] = "success"
    /\ sink' = IF modErr[m] = Nil
                 THEN Send(sink, mustNewConstMetric(scrapeSuccessDesc, Raw(1), <<m>>))
                 ELSE sink
    /\ modPc' = [modPc EXCEPT ![m] = "wgdone"]
    /\ UNCHANGED nonCycleVars
    /\ UNCHANGED <<Collectors, pLibvirt, connected, collectPc, domains, num,
                   lvDomains, descIdx, toSpawn, cycleWg, modErr, modWg, modPos,
                   units, started, connectCalls, reported, abort>>

\* Mutant of ModSuccess: success is one flag shared by the whole cycle, 0 as
\* soon as the Update of any collector has failed.
ModSuccessShared(m) ==
    /\ modPc[m] = "success"
    /\ sink' = Send(sink, mustNewConstMetric(scrapeSuccessDesc,
                     Raw(IF \E x \in Modules : modErr[x] # Nil THEN 0 ELSE 1), <<m>>))
    /\ modPc' = [modPc EXCEPT ![m] = "wgdone"]
    /\ UNCHANGED nonCycleVars
    /\ UNCHANGED <<Collectors, pLibvirt, connected, collectPc, domains, num,
                   lvDomains, descIdx, toSpawn, cycleWg, modErr, modWg, modPos,
                   units, started, connectCalls, reported, abort>>

\* ch <- MustNewConstMetric(scrapeSuccessDesc, GaugeValue, success, name)
ModSuccess(m) ==
    /\ modPc[m] = "success"
    /\ sink' = Send(sink, mustNewConstMetric(scrapeSuccessDesc,
                                             Raw(SuccessValue(modErr[m])), <<m>>))
    /\ modPc' = [modPc EXCEPT ![m] = "wgdone"]
    /\ UNCHANGED nonCycleVars
    /\ UNCHANGED <<Collectors, pLibvirt, connected, collectPc, domains, num,
                   lvDomains, descIdx, toSpawn, cycleWg, modErr, modWg, modPos,
                   units, started, connectCalls, reported, abort>>

\* wg.Done() of the collector's goroutine in Collect
ModDone(m) ==
    /\ modPc[m] = "wgdone"
    /\ cycleWg' = cycleWg - 1
    /\ modPc' = [modPc EXCEPT ![m] = "exit"]
    /\ UNCHANGED nonCycleVars
    /\ UNCHANGED <<Collectors, pLibvirt, connected, collectPc, domains, num,
                   lvDomains, descIdx, toSpawn, modErr, modWg, modPos, units, sink,
                   started, connectCalls, reported, abort>>

----------------------------------------------------------------------------
\* Specifications

Next ==
    \/ CollectEntry
    \/ CollectConnect
    \/ CollectList
    \/ CollectDesc
    \/ CollectSpawn
    \/ CollectWait
    \/ ConnDrop
    \/ \E m \in Modules : ModUpdate(m)
    \/ \E m \in Modules : ModDispatch(m)
    \/ \E m \in Modules : \E k \in 1..MaxGoroutines : UnitStat(m, k)
    \/ \E m \in Modules : \E k \in 1..MaxGoroutines : UnitSend(m, k)
    \/ \E m \in Modules : \E k \in 1..MaxGoroutines : UnitInfo(m, k)
    \/ \E m \in Modules : \E k \in 1..MaxGoroutines : UnitDone(m, k)
    \/ \E m \in Modules : ModWait(m)
    \/ \E m \in Modules : ModDuration(m)
    \/ \E m \in Modules : ModSuccess(m)
    \/ \E m \in Modules : ModDone(m)

Spec == Init /\ [][Next]_vars

\* The parsed domain lists of n domains within the bounds.
RECURSIVE LvDomainLists(_)
LvDomainLists(n) ==
    IF n = 0 THEN {<<>>}
    ELSE LET more == {p \in LvDomainLists(n - 1) \X Schemas(n) :
                        n + Devices(p[1]) + Len(p[2].Disks) + Len(p[2].Interfaces)
                          <= MaxInput}
         IN  {Append(p[1], [Domain |-> n, Schema |-> p[2]]) : p \in more}

\* execute called on its own, for one collector, with any arguments: with or
\* without a client, connected or not, with any domain list.
InitExecute ==
    /\ \E name \in Modules :
         /\ Collectors = {name}
         /\ modPc = [m \in Modules |-> IF m = name THEN "execute" ELSE "idle"]
    /\ pLibvirt \in {Nil, Client}
    /\ connected \in IF pLibvirt = Nil THEN {FALSE} ELSE BOOLEAN
    /\ collectPc = "execute"
    /\ domains = <<>>
    /\ num = 0
    /\ \E n \in 0..MaxInput :
         /\ lvDomains \in LvDomainLists(n)
         /\ Goroutines(Collectors, lvDomains) <= MaxGoroutines
    /\ descIdx = 1
    /\ toSpawn = {}
    /\ cycleWg = 0
    /\ modErr = [m \in Modules |-> Nil]
    /\ modWg = [m \in Modules |-> 0]
    /\ modPos = [m \in Modules |-> 1]
    /\ units = [m \in Modules |-> <<>>]
    /\ sink = EmptyBag
    /\ started = {}
    /\ connectCalls = 0
    /\ reported = "n/a"
    /\ abort = ""
    /\ RegistryServing
    /\ other = NoOther

NextExecute ==
    \/ \E m \in Modules : ModUpdate(m)
    \/ \E m \in Modules : ModDispatch(m)
    \/ \E m \in Modules : \E k \in 1..MaxGoroutines : UnitStat(m, k)
    \/ \E m \in Modules : \E k \in 1..MaxGoroutines : UnitSend(m, k)
    \/ \E m \in Modules : \E k \in 1..MaxGoroutines : UnitInfo(m, k)
    \/ \E m \in Modules : \E k \in 1..MaxGoroutines : UnitDone(m, k)
    \/ \E m \in Modules : ModWait(m)
    \/ \E m \in Modules : ModDuration(m)
    \/ \E m \in Modules : ModSuccess(m)

SpecExecute == InitExecute /\ [][NextExecute]_vars

\* Collect up to the start of the collectors, with a listing whose count may
\* differ from the number of its handles
NextList ==
    \/ CollectEntry
    \/ CollectConnect
    \/ CollectList
    \/ CollectListMismatch
    \/ CollectDesc
    \/ CollectSpawn

SpecList == Init /\ [][NextList]_vars

\* The steps of the goroutine that runs Collect, once it has been called
CollectSteps ==
    \/ CollectConnect
    \/ CollectList
    \/ CollectDesc
    \/ CollectSpawn
    \/ CollectWait

\* The steps of the goroutine Collect starts for collector m: execute, Update
ModSteps(m) ==
    \/ ModUpdate(m)
    \/ ModDispatch(m)
    \/ ModWait(m)
    \/ ModDuration(m)
    \/ ModSuccess(m)
    \/ ModDone(m)

\* The steps of the k-th goroutine Update of collector m starts
UnitSteps(m, k) ==
    \/ UnitStat(m, k)
    \/ UnitSend(m, k)
    \/ UnitInfo(m, k)
    \/ UnitDone(m, k)

\* The Go scheduler runs every goroutine that can run; every hypervisor call
\* returns and every send on ch is received. Nothing obliges the caller to
\* call Collect again or the connection to drop.
Fairness ==
    /\ WF_vars(CollectSteps)
    /\ \A m \in Modules : WF_vars(ModSteps(m))
    /\ \A m \in Modules : \A k \in 1..MaxGoroutines : WF_vars(UnitSteps(m, k))

SpecFair == Init /\ [][Next]_vars /\ Fairness

\* A cycle in which stat calls may fail to return
NextHang ==
    \/ CollectEntry
    \/ CollectConnect
    \/ CollectList
    \/ CollectDesc
    \/ CollectSpawn
    \/ CollectWait
    \/ ConnDrop
    \/ \E m \in Modules : ModUpdate(m)
    \/ \E m \in Modules : ModDispatch(m)
    \/ \E m \in Modules : \E k \in 1..MaxGoroutines : UnitStat(m, k)
    \/ \E m \in Modules : \E k \in 1..MaxGoroutines : UnitHang(m, k)
    \/ \E m \in Modules : \E k \in 1..MaxGoroutines : UnitSend(m, k)
    \/ \E m \in Modules : \E k \in 1..MaxGoroutines : UnitInfo(m, k)
    \/ \E m \in Modules : \E k \in 1..MaxGoroutines : UnitDone(m, k)
    \/ \E m \in Modules : ModWait(m)
    \/ \E m \in Modules : ModDuration(m)
    \/ \E m \in Modules : ModSuccess(m)
    \/ \E m \in Modules : ModDone(m)

SpecHang == Init /\ [][NextHang]_vars

----------------------------------------------------------------------------
\* Counting what the sink received

\* The number of metrics in the sink that satisfy P.
SinkCount(P(_)) ==
    BagCardinality([s \in {x \in BagToSet(sink) : P(x)} |-> sink[s]])

DurationCount(m) ==
    SinkCount(LAMBDA s : s.desc = scrapeDurationDesc /\ s.labels = <<m>>)

SuccessCount(m) ==
    SinkCount(LAMBDA s : s.desc = scrapeSuccessDesc /\ s.labels = <<m>>)

SuccessCountOf(m, v) ==
    SinkCount(LAMBDA s : s.desc = scrapeSuccessDesc /\ s.labels = <<m>>
                         /\ s.value = <<v, 1>>)

IsOutcome(s) == s.desc \in {scrapeDurationDesc, scrapeSuccessDesc}

DataCount == SinkCount(LAMBDA s : ~IsOutcome(s))

Finished == collectPc = "returned" /\ abort = "scrape finished"

Aborted == collectPc = "returned" /\ abort # "scrape finished"

\* Update of m has returned.
Returned(m) == modPc[m] \in {"duration", "success", "wgdone", "exit"}

UnitIds(m) == 1..Len(units[m])

----------------------------------------------------------------------------
\* C1: in every cycle that passes the connection checks, the listing and the
\* parsing, each active collector gets exactly one duration metric and exactly
\* one success metric labelled with its name: never two of either at any
\* moment, none for a collector outside the active set, and both present when
\* Collect returns, however many work units ran, were skipped or failed.
C1_OneOutcomePerCollector ==
    /\ \A m \in Modules : DurationCount(m) <= 1 /\ SuccessCount(m) <= 1
    /\ \A m \in Modules \ Collectors : DurationCount(m) = 0 /\ SuccessCount(m) = 0
    /\ Finished =>
         \A m \in Collectors : DurationCount(m) = 1 /\ SuccessCount(m) = 1

\* A finished cycle of two collectors in which a stat call failed.
C1_Witness ==
    /\ Finished
    /\ Cardinality(Collectors) >= 2
    /\ \E m \in Collectors : \E k \in UnitIds(m) : units[m][k].stat = "err"
    /\ \A m \in Collectors : DurationCount(m) = 1 /\ SuccessCount(m) = 1

\* C2: a cycle is all or nothing. Once the Update of any collector has been
\* called the cycle no longer aborts, and when Collect returns either no Update
\* was called and nothing was sent, or the Update of every active collector was
\* called and every one of them has its duration and success metrics.
C2_AllOrNothing ==
    /\ started # {} => collectPc \in {"spawn", "wait", "returned"} /\ ~Aborted
    /\ started \subseteq Collectors
    /\ collectPc = "returned" =>
         \/ /\ started = {}
            /\ sink = EmptyBag
            /\ \A m \in Modules : modPc[m] = "idle"
         \/ /\ started = Collectors
            /\ \A m \in Collectors : DurationCount(m) = 1 /\ SuccessCount(m) = 1

\* A cycle that ran all of its three collectors and returned.
C2_Witness ==
    /\ Finished
    /\ Cardinality(Collectors) >= 3
    /\ started = Collectors
    /\ lvDomains # <<>>

\* C3: an Update that returns an error fails its own collector alone. The
\* cycle is not aborted, every active collector runs to its end and has its
\* pair when Collect returns, and each success metric is 0 exactly when that
\* collector's own Update returned an error.
C3_FailureIsolated ==
    /\ (\E m \in Modules : modErr[m] # Nil) => ~Aborted
    /\ Finished =>
         \A m \in Collectors :
            /\ modPc[m] = "exit"
            /\ DurationCount(m) = 1
            /\ SuccessCountOf(m, IF modErr[m] = Nil THEN 1 ELSE 0) = 1
            /\ SuccessCount(m) = 1

\* A finished cycle in which one Update failed and another returned nil.
C3_Witness ==
    /\ Finished
    /\ \E m1, m2 \in Collectors :
         /\ modErr[m1] # Nil /\ SuccessCountOf(m1, 0) = 1
         /\ modErr[m2] = Nil /\ SuccessCountOf(m2, 1) = 1

----------------------------------------------------------------------------
\* The data metrics of one work unit, as the sink shows them

CpuDescs == {"libvirt_domain_cpu_seconds_total", "libvirt_domain_cpu_vcpu_number"}

MemoryDescs == {MemoryDescOf(tag) : tag \in 0..12}

InterfaceDescs ==
    {"libvirt_domain_interface_receive_bytes_total",
     "libvirt_domain_interface_receive_packets_total",
     "libvirt_domain_interface_receive_errors_total",
     "libvirt_domain_interface_receive_drops_total",
     "libvirt_domain_interface_transmit_bytes_total",
     "libvirt_domain_interface_transmit_packets_total",
     "libvirt_domain_interface_transmit_errors_total",
     "libvirt_domain_interface_transmit_drops_total"}

BlockDescs ==
    {"libvirt_domain_block_read_bytes_total",
     "libvirt_domain_block_read_requests_total",
     "libvirt_domain_block_write_bytes_total",
     "libvirt_domain_block_write_requests_total",
     "libvirt_domain_block_capacity_bytes",
     "libvirt_domain_block_allocation_bytes",
     "libvirt_domain_block_physical_bytes"}

DescsOf(m) ==
    CASE m = "cpu" -> CpuDescs
      [] m = "memory" -> MemoryDescs
      [] m = "interface" -> InterfaceDescs
      [] m = "block" -> BlockDescs

\* Metric s is one of unit u of collector m: it has one of m's names, the
\* UUID of u's domain and, for a device, u's two device labels.
OfUnit(s, m, u) ==
    /\ s.desc \in DescsOf(m)
    /\ s.labels[1] = u.uuid
    /\ m \in {"interface", "block"} => s.labels = <<u.uuid, u.a, u.b>>

UnitCount(m, k) == SinkCount(LAMBDA s : OfUnit(s, m, units[m][k]))

UnitDescs(m, k) == {s.desc : s \in {x \in BagToSet(sink) : OfUnit(x, m, units[m][k])}}

\* The number of metrics a unit sends when its calls have returned as recorded.
ExpectedCount(m, u) ==
    CASE m = "cpu" -> 2
      [] m = "memory" -> Cardinality({i \in 1..Len(u.res) : u.res[i].Tag \in 0..12})
      [] m = "interface" -> 8
      [] m = "block" -> IF u.info = "ok" THEN 4 + 3 ELSE 4

----------------------------------------------------------------------------
\* C4: in each of the four collectors a work unit whose stat call fails sends
\* no metric and fails nothing else: Update still returns nil, the success
\* metric of the collector is 1, and every sibling unit whose call succeeded
\* has its full set of metrics in the sink when Update returns.
C4_UnitFailureIsolated ==
    \A m \in Modules : \A k \in UnitIds(m) :
        LET u == units[m][k]
        IN  /\ u.stat = "err" =>
                 /\ UnitCount(m, k) = 0
                 /\ Returned(m) => modErr[m] = Nil
                 /\ modPc[m] \in {"wgdone", "exit"} => SuccessCountOf(m, 1) = 1
            /\ (u.stat = "ok" /\ Returned(m)) =>
                 /\ UnitCount(m, k) = ExpectedCount(m, u)
                 /\ Cardinality(UnitDescs(m, k)) = ExpectedCount(m, u)

\* The block collector is through, one disk's stat call failed and the
\* sibling disk has its 4 + 3 metrics.
C4_Witness ==
    /\ modPc["block"] = "exit"
    /\ SuccessCountOf("block", 1) = 1
    /\ \E k1, k2 \in UnitIds("block") :
         /\ units["block"][k1].stat = "err"
         /\ UnitCount("block", k1) = 0
         /\ units["block"][k2].stat = "ok"
         /\ UnitCount("block", k2) = 7

\* C5: an Update called without a client, with a client that is not
\* connected, or with an empty domain list returns ErrNotProvided, starts no
\* goroutine, sends no data metric, and execute then sends exactly one
\* duration and one success metric for it, the success being 0.
C5_MissingInput ==
    \A m \in started :
        (pLibvirt = Nil \/ ~connected \/ lvDomains = <<>>) =>
            /\ modErr[m] = ErrNotProvided
            /\ units[m] = <<>>
            /\ modWg[m] = 0
            /\ DataCount = 0
            /\ modPc[m] = "wgdone" =>
                 /\ DurationCount(m) = 1
                 /\ SuccessCount(m) = 1
                 /\ SuccessCountOf(m, 0) = 1

\* execute has returned for an Update that was given domains but no client.
C5_Witness ==
    /\ pLibvirt = Nil
    /\ lvDomains # <<>>
    /\ \E m \in started :
         /\ modPc[m] = "wgdone"
         /\ modErr[m] = ErrNotProvided
         /\ SuccessCountOf(m, 0) = 1

\* C6: the connection checks of Collect. Without a client the cycle returns
\* having sent nothing; with a client that reports connected Connect is not
\* called; with one that reports not connected Connect is called exactly once,
\* and when that call fails the cycle returns having sent nothing and started
\* no collector.
C6_ConnectionValidation ==
    /\ connectCalls <= 1
    /\ reported = "yes" => connectCalls = 0
    /\ (reported = "no" /\ collectPc # "connect") => connectCalls = 1
    /\ (pLibvirt = Nil /\ collectPc # "idle") =>
         /\ collectPc = "returned"
         /\ connectCalls = 0
         /\ sink = EmptyBag
         /\ started = {}
    /\ abort = "libvirt could not connect" =>
         /\ collectPc = "returned"
         /\ connectCalls = 1
         /\ sink = EmptyBag
         /\ started = {}
         /\ \A m \in Modules : modPc[m] = "idle"

\* A cycle that found the client not connected, called Connect once, and
\* returned because the call failed.
C6_Witness ==
    /\ collectPc = "returned"
    /\ reported = "no"
    /\ abort = "libvirt could not connect"
    /\ connectCalls = 1
    /\ Collectors # {}

\* C7: when the listing of the domains fails, Collect returns having sent no
\* metric of any kind and having started no collector.
C7_ListFailureAborts ==
    abort = "failed to list domains" =>
        /\ collectPc = "returned"
        /\ sink = EmptyBag
        /\ started = {}
        /\ \A m \in Modules : modPc[m] = "idle" /\ units[m] = <<>>

\* A cycle with active collectors that returned on a failed listing.
C7_Witness ==
    /\ collectPc = "returned"
    /\ abort = "failed to list domains"
    /\ Collectors # {}

\* C8: when the description of any one domain cannot be fetched or parsed,
\* whatever its place in the list and however many were parsed before it,
\* Collect returns having started no collector and sent no metric.
C8_DescFailureAborts ==
    abort \in {"failed to get domain xml", "failed to parse domain xml"} =>
        /\ collectPc = "returned"
        /\ sink = EmptyBag
        /\ started = {}
        /\ \A m \in Modules : modPc[m] = "idle" /\ units[m] = <<>>

\* A cycle that parsed its first domain and returned on the second, which
\* could not be parsed.
C8_Witness ==
    /\ collectPc = "returned"
    /\ abort = "failed to parse domain xml"
    /\ descIdx = 2
    /\ lvDomains[1].Schema # NilSchema
    /\ Collectors # {}

\* C9: the success metric of a collector is 1 exactly when its Update returned
\* no error and 0 for every error (ErrNoData, ErrNotProvided or any other), and
\* the duration and the success metric of one call of execute carry the name of
\* that collector as their one label.
C9_SuccessIffNoError ==
    /\ SuccessValue(Nil) = 1
    /\ \A err \in Errors : SuccessValue(err) = 0
    /\ \A s \in BagToSet(sink) :
         IsOutcome(s) =>
            /\ Len(s.labels) = 1
            /\ s.labels[1] \in started
            /\ s.desc = scrapeSuccessDesc =>
                 s.value = <<IF modErr[s.labels[1]] = Nil THEN 1 ELSE 0, 1>>
    /\ \A m \in Modules :
         modPc[m] \in {"wgdone", "exit"} =>
            DurationCount(m) = 1 /\ SuccessCount(m) = 1

\* The sink holds a success metric of 0 and one of 1.
C9_Witness ==
    \E m1, m2 \in Modules :
        /\ modErr[m1] = ErrNotProvided /\ SuccessCountOf(m1, 0) = 1
        /\ modErr[m2] = Nil /\ SuccessCountOf(m2, 1) = 1

\* C10: when Collect has returned every goroutine of the cycle is over, no
\* metric is left unsent, and nothing is sent to the sink afterwards.
C10_JoinedAtReturn ==
    [](collectPc = "returned" =>
         /\ cycleWg = 0
         /\ \A m \in Modules :
              /\ modPc[m] \in {"idle", "exit"}
              /\ modPc[m] = "idle" <=> m \notin started
              /\ modWg[m] = 0
              /\ \A k \in UnitIds(m) :
                   units[m][k].pc = "exit" /\ units[m][k].todo = <<>>)
    /\ [][(collectPc = "returned" /\ collectPc' = "returned") => sink' = sink]_vars

\* Collect has returned from a cycle in which two collectors ran goroutines.
C10_Witness ==
    /\ Finished
    /\ \E m1, m2 \in Collectors :
         /\ m1 # m2
         /\ units[m1] # <<>>
         /\ units[m2] # <<>>
    /\ DataCount > 0

----------------------------------------------------------------------------
\* The registry from process start: the init functions, the flags, and calls
\* of NewLibvirtCollector one after the other

\* No LibvirtCollector exists yet, no cycle runs.
NoCycle ==
    /\ Collectors = {}
    /\ pLibvirt = Nil
    /\ connected = FALSE
    /\ collectPc = "idle"
    /\ domains = <<>>
    /\ num = 0
    /\ lvDomains = <<>>
    /\ descIdx = 1
    /\ toSpawn = {}
    /\ cycleWg = 0
    /\ modPc = [m \in Modules |-> "idle"]
    /\ modErr = [m \in Modules |-> Nil]
    /\ modWg = [m \in Modules |-> 0]
    /\ modPos = [m \in Modules |-> 1]
    /\ units = [m \in Modules |-> <<>>]
    /\ sink = EmptyBag
    /\ started = {}
    /\ connectCalls = 0
    /\ reported = "n/a"
    /\ abort = ""
    /\ other = NoOther

InitRegistry ==
    /\ NoCycle
    /\ phase = "init"
    /\ factories = [m \in Modules |-> 0]
    /\ collectorState = [m \in Modules |-> 0]
    /\ enabled = [m \in Modules |-> FALSE]
    /\ forcedCollectors = {}
    /\ initiatedCollectors = NoCollectors
    /\ initiatedCollectorsMtx = 0
    /\ calls = [c \in Calls |-> IdleCall]
    /\ constructCalls = [m \in Modules |-> 0]
    /\ defaultsDisabled = FALSE

\* A call that has returned is forgotten by its caller.
Forget(c) ==
    /\ calls[c].pc = "done"
    /\ calls' = [calls EXCEPT ![c] = IdleCall]
    /\ UNCHANGED <<phase, factories, collectorState, enabled, forcedCollectors,
                   initiatedCollectors, initiatedCollectorsMtx, constructCalls>>
    /\ UNCHANGED <<cycleVars, other, defaultsDisabled>>

NextRegistry ==
    \/ \E m \in Modules : registerCollector(m, defaultEnabled)
    \/ ParseFlags
    \/ DisableDefaultCollectors
    \/ \E filters \in FilterLists : CallNew(1, filters)
    \/ Lock(1)
    \/ Iterate(1)
    \/ Construct(1)
    \/ Return(1)

SpecRegistry == InitRegistry /\ [][NextRegistry]_vars

\* Concurrent calls of NewLibvirtCollector in a process that has registered
\* the four collectors and parsed its flags

InitCalls ==
    /\ NoCycle
    /\ phase = "serve"
    /\ factories = [m \in Modules |-> 1]
    /\ collectorState = [m \in Modules |-> 1]
    /\ enabled \in [Modules -> BOOLEAN]
    /\ forcedCollectors = {}
    /\ initiatedCollectors = NoCollectors
    /\ initiatedCollectorsMtx = 0
    /\ calls = [c \in Calls |-> IdleCall]
    /\ constructCalls = [m \in Modules |-> 0]
    /\ defaultsDisabled = FALSE

NextCalls ==
    \/ \E c \in Calls : \E filters \in FilterLists : CallNew(c, filters)
    \/ \E c \in Calls : Lock(c)
    \/ \E c \in Calls : Iterate(c)
    \/ \E c \in Calls : Construct(c)
    \/ \E c \in Calls : Return(c)
    \/ \E c \in Calls : Forget(c)

SpecCalls == InitCalls /\ [][NextCalls]_vars

\* Serving with any part of the collectors registered: a name that no init()
\* registered is a missing collector for the filters of a call.
InitServing ==
    /\ NoCycle
    /\ phase = "serve"
    /\ collectorState \in [Modules -> {0, 1}]
    /\ factories = collectorState
    /\ enabled \in [Modules -> BOOLEAN]
    /\ \A m \in Modules : enabled[m] => collectorState[m] # 0
    /\ forcedCollectors = {}
    /\ initiatedCollectors = NoCollectors
    /\ initiatedCollectorsMtx = 0
    /\ calls = [c \in Calls |-> IdleCall]
    /\ constructCalls = [m \in Modules |-> 0]
    /\ defaultsDisabled = FALSE

SpecServing == InitServing /\ [][NextCalls]_vars

----------------------------------------------------------------------------
\* Two calls of Collect on one LibvirtCollector, each with its own channel.
\* The locals of a call (and of the goroutines it started) are its own; the
\* receiver's fields n.Collectors and n.pLibvirt are the same for both.

\* The locals of the call that takes the current steps.
Current ==
    [collectPc |-> collectPc, domains |-> domains, num |-> num,
     lvDomains |-> lvDomains, descIdx |-> descIdx, toSpawn |-> toSpawn,
     cycleWg |-> cycleWg, modPc |-> modPc, modErr |-> modErr, modWg |-> modWg,
     modPos |-> modPos, units |-> units, sink |-> sink, started |-> started,
     connectCalls |-> connectCalls, reported |-> reported, abort |-> abort]

\* Mutant of Switch: the two calls send to one channel.
SwitchSharedSink ==
    /\ other.collectPc # "absent"
    /\ collectPc' = other.collectPc
    /\ domains' = other.domains
    /\ num' = other.num
    /\ lvDomains' = other.lvDomains
    /\ descIdx' = other.descIdx
    /\ toSpawn' = other.toSpawn
    /\ cycleWg' = other.cycleWg
    /\ modPc' = other.modPc
    /\ modErr' = other.modErr
    /\ modWg' = other.modWg
    /\ modPos' = other.modPos
    /\ units' = other.units
    /\ sink' = sink
    /\ started' = other.started
    /\ connectCalls' = other.connectCalls
    /\ reported' = other.reported
    /\ abort' = other.abort
    /\ other' = Current
    /\ UNCHANGED <<Collectors, pLibvirt, connected, registryVars>>

\* The scheduler turns to the goroutines of the other call.
Switch ==
    /\ other.collectPc # "absent"
    /\ collectPc' = other.collectPc
    /\ domains' = other.domains
    /\ num' = other.num
    /\ lvDomains' = other.lvDomains
    /\ descIdx' = other.descIdx
    /\ toSpawn' = other.toSpawn
    /\ cycleWg' = other.cycleWg
    /\ modPc' = other.modPc
    /\ modErr' = other.modErr
    /\ modWg' = other.modWg
    /\ modPos' = other.modPos
    /\ units' = other.units
    /\ sink' = other.sink
    /\ started' = other.started
    /\ connectCalls' = other.connectCalls
    /\ reported' = other.reported
    /\ abort' = other.abort
    /\ other' = Current
    /\ UNCHANGED <<Collectors, pLibvirt, connected, registryVars>>

InitTwo ==
    /\ Collectors \in SUBSET Modules
    /\ pLibvirt \in {Nil, Client}
    /\ connected \in BOOLEAN
    /\ collectPc = "idle"
    /\ domains = <<>>
    /\ num = 0
    /\ lvDomains = <<>>
    /\ descIdx = 1
    /\ toSpawn = {}
    /\ cycleWg = 0
    /\ modPc = [m \in Modules |-> "idle"]
    /\ modErr = [m \in Modules |-> Nil]
    /\ modWg = [m \in Modules |-> 0]
    /\ modPos = [m \in Modules |-> 1]
    /\ units = [m \in Modules |-> <<>>]
    /\ sink = EmptyBag
    /\ started = {}
    /\ connectCalls = 0
    /\ reported = "n/a"
    /\ abort = ""
    /\ other = IdleCycle
    /\ RegistryServing

\* Each of the two calls runs one cycle.
CollectEntryOnce == collectPc = "idle" /\ CollectEntry

NextTwo ==
    \/ Switch
    \/ CollectEntryOnce
    \/ CollectConnect
    \/ CollectList
    \/ CollectDesc
    \/ CollectSpawn
    \/ CollectWait
    \/ ConnDrop
    \/ \E m \in Modules : ModUpdate(m)
    \/ \E m \in Modules : ModDispatch(m)
    \/ \E m \in Modules : \E k \in 1..MaxGoroutines : UnitStat(m, k)
    \/ \E m \in Modules : \E k \in 1..MaxGoroutines : UnitSend(m, k)
    \/ \E m \in Modules : \E k \in 1..MaxGoroutines : UnitInfo(m, k)
    \/ \E m \in Modules : \E k \in 1..MaxGoroutines : UnitDone(m, k)
    \/ \E m \in Modules : ModWait(m)
    \/ \E m \in Modules : ModDuration(m)
    \/ \E m \in Modules : ModSuccess(m)
    \/ \E m \in Modules : ModDone(m)

SpecTwo == InitTwo /\ [][NextTwo]_vars

----------------------------------------------------------------------------
\* The accounting of the WaitGroup of one Update

\* Update of m is past its three checks.
PastChecks(m) == m \in started /\ modErr[m] = Nil

\* The iterations before pos that took the skip branch (wg.Done and continue).
SkipsBefore(m, pos) ==
    Cardinality({i \in 1..Len(Items(m, lvDomains)) :
                    i < pos /\ Items(m, lvDomains)[i].skip})

\* The goroutines of m that have called wg.Done.
Exited(m) == Cardinality({k \in UnitIds(m) : units[m][k].pc = "exit"})

\* The iterations of m's loop that start a goroutine.
Eligible(m) ==
    Cardinality({i \in 1..Len(Items(m, lvDomains)) : ~Items(m, lvDomains)[i].skip})

\* C11: the WaitGroup of every Update is given its size once, before the
\* first goroutine is started; every counted iteration signals it exactly once,
\* whether it was skipped, its call failed or its metrics were sent; the counter
\* is never negative and is zero exactly when all of them have signalled.
C11_BarrierAccounting ==
    /\ [](\A m \in Modules :
            PastChecks(m) =>
              LET items == Items(m, lvDomains)
                  size == WgCounter(m, lvDomains)
                  signals == SkipsBefore(m, modPos[m]) + Exited(m)
              IN  /\ size = Len(items)
                  /\ Len(units[m]) + SkipsBefore(m, modPos[m]) = modPos[m] - 1
                  /\ modWg[m] = size - signals
                  /\ modWg[m] >= 0
                  /\ modWg[m] = 0 <=>
                       /\ modPos[m] = Len(items) + 1
                       /\ \A k \in UnitIds(m) : units[m][k].pc = "exit"
                  /\ Returned(m) => signals = size)
    /\ [][\A m \in Modules :
            modWg'[m] > modWg[m] => modPc[m] = "execute" /\ units[m] = <<>>]_vars

\* The block Update has returned after one skipped disk and one disk whose
\* stat call failed.
C11_Witness ==
    /\ Returned("block")
    /\ PastChecks("block")
    /\ WgCounter("block", lvDomains) = 2
    /\ SkipsBefore("block", modPos["block"]) = 1
    /\ \E k \in UnitIds("block") :
         units["block"][k].stat = "err" /\ units["block"][k].pc = "exit"

----------------------------------------------------------------------------
\* The devices of the parsed domains, by the labels their metrics would carry

DisksWhere(P(_)) ==
    {<<lvDomains[i].Schema.UUID, lvDomains[i].Schema.Disks[k].File,
       lvDomains[i].Schema.Disks[k].Target>> :
        <<i, k>> \in {x \in (1..Len(lvDomains)) \X (1..MaxInput) :
                        /\ x[2] <= Len(lvDomains[x[1]].Schema.Disks)
                        /\ P(lvDomains[x[1]].Schema.Disks[x[2]])}}

RemovableDisks == DisksWhere(LAMBDA d : d.Device \in {"cdrom", "fq"})

FixedDisks == DisksWhere(LAMBDA d : d.Device \notin {"cdrom", "fq"})

InterfacesWhere(P(_)) ==
    {<<lvDomains[i].Schema.UUID, lvDomains[i].Schema.Interfaces[k].Bridge,
       lvDomains[i].Schema.Interfaces[k].Target>> :
        <<i, k>> \in {x \in (1..Len(lvDomains)) \X (1..MaxInput) :
                        /\ x[2] <= Len(lvDomains[x[1]].Schema.Interfaces)
                        /\ P(lvDomains[x[1]].Schema.Interfaces[x[2]])}}

UntargetedInterfaces == InterfacesWhere(LAMBDA f : f.Target = "")

TargetedInterfaces == InterfacesWhere(LAMBDA f : f.Target # "")

\* The goroutines of m, by the labels of their device.
UnitLabels(m) == {<<units[m][k].uuid, units[m][k].a, units[m][k].b>> : k \in UnitIds(m)}

\* The labels of the metrics of m in the sink.
SinkLabels(m) == {s.labels : s \in {x \in BagToSet(sink) : x.desc \in DescsOf(m)}}

\* Update of m has just called wg.Add.
JustSized(m) == PastChecks(m) /\ modPc[m] = "dispatch" /\ modPos[m] = 1

\* Update of m has left its loop.
LoopDone(m) == PastChecks(m) /\ modPc[m] # "dispatch"

\* C12 as stated: disks of device type "cdrom" or "fq" produce no block
\* metric, cause no hypervisor call, and the size given to the WaitGroup of
\* the block collector is the number of the other disks.
C12_Original ==
    PastChecks("block") =>
        /\ SinkLabels("block") \cap RemovableDisks = {}
        /\ UnitLabels("block") \cap RemovableDisks = {}
        /\ JustSized("block") => modWg["block"] = Cardinality(FixedDisks)

\* C12 (amended): disks of device type "cdrom" or "fq" produce no block
\* metric and get no goroutine, hence no DomainBlockStats or
\* DomainGetBlockInfo call; the goroutines started are exactly those of the
\* other disks. The WaitGroup is sized to all disks, removable ones included,
\* and each removable disk takes itself off again in the loop, so that after
\* the loop no more than the other disks are outstanding.
C12_RemovableSkipped ==
    PastChecks("block") =>
        /\ SinkLabels("block") \cap RemovableDisks = {}
        /\ SinkLabels("block") \subseteq FixedDisks
        /\ UnitLabels("block") \subseteq FixedDisks
        /\ Len(units["block"]) = Cardinality(UnitLabels("block"))
        /\ LoopDone("block") => UnitLabels("block") = FixedDisks
        /\ JustSized("block") =>
             modWg["block"] = Cardinality(FixedDisks) + Cardinality(RemovableDisks)
        /\ LoopDone("block") => modWg["block"] <= Cardinality(FixedDisks)

\* The block Update has returned for a domain with a floppy and a hard disk:
\* the hard disk has its metrics, the floppy none.
C12_Witness ==
    /\ Returned("block")
    /\ PastChecks("block")
    /\ \E i \in 1..Len(lvDomains) : \E k \in 1..Len(lvDomains[i].Schema.Disks) :
         lvDomains[i].Schema.Disks[k].Device = "fq"
    /\ Cardinality(RemovableDisks) = 1
    /\ SinkLabels("block") = FixedDisks
    /\ Cardinality(FixedDisks) = 1

\* C13 as stated: interfaces without a target device produce no interface
\* metric, cause no hypervisor call, and the size given to the WaitGroup of
\* the interface collector is the number of interfaces with a target device.
C13_Original ==
    PastChecks("interface") =>
        /\ SinkLabels("interface") \cap UntargetedInterfaces = {}
        /\ UnitLabels("interface") \cap UntargetedInterfaces = {}
        /\ JustSized("interface") =>
             modWg["interface"] = Cardinality(TargetedInterfaces)

\* C13 (amended): interfaces without a target device produce no interface
\* metric and get no goroutine, hence no DomainInterfaceStats call; the
\* goroutines started are exactly those of the interfaces with a target
\* device. The WaitGroup is sized to all interfaces, and each interface
\* without a target device takes itself off again in the loop.
C13_UntargetedSkipped ==
    PastChecks("interface") =>
        /\ SinkLabels("interface") \cap UntargetedInterfaces = {}
        /\ SinkLabels("interface") \subseteq TargetedInterfaces
        /\ UnitLabels("interface") \subseteq TargetedInterfaces
        /\ Len(units["interface"]) = Cardinality(UnitLabels("interface"))
        /\ LoopDone("interface") => UnitLabels("interface") = TargetedInterfaces
        /\ JustSized("interface") =>
             modWg["interface"] = Cardinality(TargetedInterfaces)
                                    + Cardinality(UntargetedInterfaces)
        /\ LoopDone("interface") =>
             modWg["interface"] <= Cardinality(TargetedInterfaces)

\* The interface Update has returned for a domain with one interface that has
\* a target device and one that has none.
C13_Witness ==
    /\ Returned("interface")
    /\ PastChecks("interface")
    /\ Cardinality(UntargetedInterfaces) = 1
    /\ Cardinality(TargetedInterfaces) = 1
    /\ SinkLabels("interface") = TargetedInterfaces

\* The devices m would start a goroutine for.
EligibleDevices(m) ==
    IF m = "block" THEN FixedDisks ELSE TargetedInterfaces

\* C14: a block or interface Update that was given domains but finds no
\* eligible device (no disk but removable ones, no interface with a target
\* device, or no device at all) starts no goroutine, sends no data metric, does
\* not block in wg.Wait, returns nil, and the collector's success metric is 1.
C14_NoEligibleUnits ==
    \A m \in {"block", "interface"} :
        (/\ m \in started
         /\ modErr[m] # ErrNotProvided
         /\ lvDomains # <<>>
         /\ EligibleDevices(m) = {}) =>
            /\ units[m] = <<>>
            /\ SinkLabels(m) = {}
            /\ modPc[m] = "wait" => modWg[m] = 0
            /\ Returned(m) => modErr[m] = Nil
            /\ modPc[m] \in {"wgdone", "exit"} =>
                 SuccessCount(m) = 1 /\ SuccessCountOf(m, 1) = 1

\* The block collector is through with a domain whose disks are all removable.
C14_Witness ==
    /\ modPc["block"] = "exit"
    /\ PastChecks("block")
    /\ lvDomains # <<>>
    /\ FixedDisks = {}
    /\ Cardinality(RemovableDisks) = 2
    /\ SinkLabels("block") = {}
    /\ SuccessCountOf("block", 1) = 1

----------------------------------------------------------------------------
\* Calls of NewLibvirtCollector that have returned

Registered == {m \in Modules : collectorState[m] # 0}

Enabled == {m \in Registered : enabled[m]}

\* The call has returned a LibvirtCollector.
ReturnedCollector(c) == calls[c].pc = "done" /\ calls[c].err = Nil

\* The names of the Collectors map of the LibvirtCollector returned.
ActiveSet(c) == {m \in Modules : calls[c].result[m] # Nil}

FilterSet(c) == {calls[c].filters[i] : i \in 1..Len(calls[c].filters)}

\* The places in the filters of a name that is not registered or not enabled.
Offenders(c) ==
    {i \in 1..Len(calls[c].filters) : calls[c].filters[i] \notin Enabled}

\* C15: without filters NewLibvirtCollector returns the registered collectors
\* whose flag is true; with filters that are all registered and enabled it
\* returns exactly the filtered names, a name given twice counted once; the
\* set never has a collector whose flag is false.
C15_ActiveSet ==
    \A c \in Calls :
        calls[c].pc = "done" =>
            /\ FilterSet(c) \subseteq Enabled => ReturnedCollector(c)
            /\ ReturnedCollector(c) =>
                 /\ calls[c].filters = <<>> => ActiveSet(c) = Enabled
                 /\ calls[c].filters # <<>> => ActiveSet(c) = FilterSet(c)
                 /\ ActiveSet(c) \subseteq Enabled

\* A call that named one collector twice returned that collector alone, while
\* another collector was registered and enabled.
C15_Witness ==
    /\ ReturnedCollector(1)
    /\ Len(calls[1].filters) = 2
    /\ calls[1].filters[1] = calls[1].filters[2]
    /\ ActiveSet(1) = {calls[1].filters[1]}
    /\ Cardinality(Enabled) = 2
    /\ Registered # Enabled

\* C16 as stated: a filter list with a name that is not registered fails with
\* "missing collector", one with a name that is registered but not enabled
\* fails with "disabled collector", whatever the other names are, and neither
\* returns a LibvirtCollector.
C16_Original ==
    \A c \in Calls :
        calls[c].pc = "done" =>
            /\ (\E i \in Offenders(c) : calls[c].filters[i] \notin Registered) =>
                 /\ calls[c].err # Nil
                 /\ calls[c].err[1] = "missing collector"
                 /\ calls[c].result = Nil
            /\ (\E i \in Offenders(c) : calls[c].filters[i] \in Registered) =>
                 /\ calls[c].err # Nil
                 /\ calls[c].err[1] = "disabled collector"
                 /\ calls[c].result = Nil

\* C16 (amended): a filter list with a name that is not registered or not
\* enabled returns no LibvirtCollector but the error of the first such name in
\* the list: "missing collector" when that name is not registered, "disabled
\* collector" when it is registered and its flag is false.
C16_FirstOffender ==
    \A c \in Calls :
        (calls[c].pc = "done" /\ Offenders(c) # {}) =>
            LET first == CHOOSE i \in Offenders(c) : \A j \in Offenders(c) : i <= j
                name == calls[c].filters[first]
            IN  /\ calls[c].result = Nil
                /\ calls[c].err =
                     <<IF name \in Registered THEN "disabled collector"
                       ELSE "missing collector", name>>

\* A call whose filters name a disabled collector and then one that is not
\* registered has failed with the error of the disabled one.
C16_Witness ==
    /\ calls[1].pc = "done"
    /\ Len(calls[1].filters) = 2
    /\ calls[1].filters[1] \in Registered \ Enabled
    /\ calls[1].filters[2] \notin Registered
    /\ calls[1].err = <<"disabled collector", calls[1].filters[1]>>
    /\ calls[1].result = Nil

\* C17: whatever the interleaving of the calls of NewLibvirtCollector, the
\* factory of a name is called at most once, and every LibvirtCollector
\* returned with that name holds the one cached Collector.
C17_ConstructedOnce ==
    /\ \A m \in Modules : constructCalls[m] <= 1
    /\ \A m \in Modules : initiatedCollectors[m] # Nil <=> constructCalls[m] = 1
    /\ \A c \in Calls : \A m \in Modules :
         calls[c].collectors[m] # Nil =>
            calls[c].collectors[m] = initiatedCollectors[m]
    /\ \A c \in Calls : \A m \in Modules :
         (ReturnedCollector(c) /\ m \in ActiveSet(c)) =>
            calls[c].result[m] = initiatedCollectors[m]
    /\ \A c1, c2 \in Calls : \A m \in Modules :
         (ReturnedCollector(c1) /\ ReturnedCollector(c2)
            /\ m \in ActiveSet(c1) \cap ActiveSet(c2)) =>
               calls[c1].result[m] = calls[c2].result[m]

\* Two calls have returned LibvirtCollectors that share a collector, which was
\* constructed once.
C17_Witness ==
    /\ ReturnedCollector(1)
    /\ ReturnedCollector(2)
    /\ \E m \in ActiveSet(1) \cap ActiveSet(2) :
         /\ constructCalls[m] = 1
         /\ calls[1].result[m] = calls[2].result[m]
    /\ ActiveSet(1) # ActiveSet(2)

\* C18: a name is registered once: a second registerCollector call with the
\* name does not replace the factory or the flag of the first.
C18_Original ==
    \A m \in Modules : factories[m] <= 1 /\ collectorState[m] <= 1

----------------------------------------------------------------------------
\* The label names of the metric definitions (the variableLabels of NewDesc)

LabelNames(desc) ==
    CASE desc \in CpuDescs -> <<"domain_uuid", "state">>
      [] desc \in MemoryDescs -> <<"domain_uuid">>
      [] desc \in InterfaceDescs -> <<"domain_uuid", "bridge", "interface">>
      [] desc \in BlockDescs -> <<"domain_uuid", "source_file", "target_device">>
      [] desc \in {scrapeDurationDesc, scrapeSuccessDesc} -> <<"collector">>
      [] OTHER -> <<>>

\* The metrics a goroutine has built and not yet sent.
Pending == UNION {{units[m][k].todo[i] : i \in 1..Len(units[m][k].todo)} :
                    <<m, k>> \in {x \in Modules \X (1..MaxGoroutines) :
                                    x[2] <= Len(units[x[1]])}}

\* C20: every metric built by a collector or by execute has as many label
\* values as its definition has label names: 2 for cpu, 1 for memory, 3 for
\* interface and block, 1 for the scrape duration and success.
C20_LabelCounts ==
    \A s \in BagToSet(sink) \cup Pending :
        /\ s.desc \in CpuDescs \cup MemoryDescs \cup InterfaceDescs \cup BlockDescs
                        \cup {scrapeDurationDesc, scrapeSuccessDesc}
        /\ Len(s.labels) = Len(LabelNames(s.desc))

\* The sink holds a cpu metric with its two label values and metrics of a
\* collector with three, and the outcome of a collector.
C20_Witness ==
    /\ \E s \in BagToSet(sink) : s.desc \in CpuDescs /\ Len(s.labels) = 2
    /\ \E s \in BagToSet(sink) :
         s.desc \in InterfaceDescs \cup BlockDescs /\ Len(s.labels) = 3
    /\ \E s \in BagToSet(sink) : s.desc = scrapeSuccessDesc /\ Len(s.labels) = 1

----------------------------------------------------------------------------
\* What one call of Collect sends, given its own list and the results its own
\* goroutines got

OutcomeSet(X) ==
    {mustNewConstMetric(scrapeDurationDesc, Elapsed, <<m>>) : m \in Collectors}
    \cup {mustNewConstMetric(scrapeSuccessDesc,
                             Raw(IF X.modErr[m] = Nil THEN 1 ELSE 0), <<m>>) :
            m \in Collectors}

SeqRange(q) == {q[i] : i \in 1..Len(q)}

UnitSet(m, u) ==
    IF u.stat # "ok" THEN {}
    ELSE SeqRange(StatSamples(m, u.res, u))
           \cup (IF u.info = "ok"
                   THEN UNION {SeqRange(BlockInfoSamples(r, u.uuid, u.a, u.b)) :
                                 r \in BlockInfoResults}
                   ELSE {})

UnitsOf(X) ==
    {x \in Modules \X (1..MaxGoroutines) : x[2] <= Len(X.units[x[1]])}

ExpectedSet(X) ==
    OutcomeSet(X) \cup UNION {UnitSet(x[1], X.units[x[1]][x[2]]) : x \in UnitsOf(X)}

\* The goroutine is one that a loop over the list lvs starts.
FromList(m, u, lvs) ==
    \E i \in 1..Len(Items(m, lvs)) :
        LET item == Items(m, lvs)[i]
        IN  /\ ~item.skip
            /\ u.domain = item.domain
            /\ u.uuid = item.uuid
            /\ u.a = item.a
            /\ u.b = item.b

\* C19: of two calls of Collect that run concurrently on one LibvirtCollector,
\* each with its own channel, each has its own domain list and WaitGroups, and
\* its channel receives the metrics of its own goroutines and no others, each
\* once: when the call returns, exactly those of its own list and results with
\* one duration and one success metric per collector, or nothing at all when
\* the call returned early.
C19_CyclesIsolated ==
    \A X \in {Current, other} :
        /\ \A s \in BagToSet(X.sink) :
             CopiesIn(s, X.sink) = 1 /\ s \in ExpectedSet(X)
        /\ X.collectPc = "returned" =>
             IF X.abort = "scrape finished"
               THEN BagToSet(X.sink) = ExpectedSet(X)
               ELSE X.sink = EmptyBag
        /\ \A x \in UnitsOf(X) : FromList(x[1], X.units[x[1]][x[2]], X.lvDomains)
        /\ \A m \in Modules :
             (m \in X.started /\ X.modErr[m] = Nil) =>
                 /\ X.modWg[m] >= 0
                 /\ X.modWg[m] <= WgCounter(m, X.lvDomains)
                 /\ X.modPc[m] \in {"duration", "success", "wgdone", "exit"} =>
                      /\ X.modWg[m] = 0
                      /\ \A k \in 1..Len(X.units[m]) : X.units[m][k].pc = "exit"

\* Both calls have returned from a full cycle, over different domain lists and
\* with different metrics received.
C19_Witness ==
    /\ collectPc = "returned"
    /\ abort = "scrape finished"
    /\ other.collectPc = "returned"
    /\ other.abort = "scrape finished"
    /\ Collectors # {}
    /\ lvDomains # other.lvDomains
    /\ lvDomains # <<>>
    /\ other.lvDomains # <<>>
    /\ sink # other.sink
    /\ DataCount > 0

----------------------------------------------------------------------------
\* The instance a goroutine works for

\* Instance i of the list has a device of collector m with the labels a and b
\* (cpu and memory work on the instance itself).
HasDevice(m, i, a, b) ==
    CASE m = "block" ->
           \E k \in 1..Len(lvDomains[i].Schema.Disks) :
               /\ lvDomains[i].Schema.Disks[k].File = a
               /\ lvDomains[i].Schema.Disks[k].Target = b
      [] m = "interface" ->
           \E k \in 1..Len(lvDomains[i].Schema.Interfaces) :
               /\ lvDomains[i].Schema.Interfaces[k].Bridge = a
               /\ lvDomains[i].Schema.Interfaces[k].Target = b
      [] OTHER -> a = "" /\ b = ""

\* C21: whatever the interleaving of the goroutines, each goroutine belongs to
\* one instance of the list: it makes its stat call with the handle of that
\* instance (and, for a device, with the name of its own device), and every
\* metric it builds carries the UUID of that same instance and the labels of
\* its own device; every data metric in the sink is one of a goroutine whose
\* call succeeded.
C21_OwnHandleOwnLabels ==
    /\ \A m \in Modules : \A k \in UnitIds(m) :
         LET u == units[m][k]
         IN  /\ \E i \in 1..Len(lvDomains) :
                  /\ lvDomains[i].Schema.UUID = u.uuid
                  /\ HasDevice(m, i, u.a, u.b)
                  /\ u.stat # "pending" =>
                       /\ u.call[1] = lvDomains[i].Domain
                       /\ m \in {"interface", "block"} => u.call[2] = u.b
                       /\ Len(u.call) = IF m \in {"interface", "block"} THEN 2 ELSE 1
             /\ \A j \in 1..Len(u.todo) : OfUnit(u.todo[j], m, u)
             /\ u.stat = "pending" => u.call = <<>>
    /\ \A s \in BagToSet(sink) :
         ~IsOutcome(s) =>
            \E m \in Modules : \E k \in UnitIds(m) :
                units[m][k].stat = "ok" /\ OfUnit(s, m, units[m][k])

\* The goroutines of two instances have made their calls and sent metrics:
\* those of the first instance are in the sink with its UUID, those of the
\* second with the UUID of the second, one of them a device of the instance.
C21_Witness ==
    /\ Len(lvDomains) = 2
    /\ \E m1, m2 \in Modules : \E k1 \in UnitIds(m1) : \E k2 \in UnitIds(m2) :
         /\ units[m1][k1].stat = "ok"
         /\ units[m2][k2].stat = "ok"
         /\ units[m1][k1].call[1] = lvDomains[1].Domain
         /\ units[m2][k2].call[1] = lvDomains[2].Domain
         /\ units[m1][k1].pc = "exit"
         /\ units[m2][k2].pc = "exit"
         /\ UnitCount(m1, k1) > 0
         /\ UnitCount(m2, k2) > 0
    /\ \E s \in BagToSet(sink) : s.labels[1] = lvDomains[1].Schema.UUID
    /\ \E s \in BagToSet(sink) : s.labels[1] = lvDomains[2].Schema.UUID

----------------------------------------------------------------------------
\* The number of data metrics of a cycle

\* The metrics of collector m in the sink.
ModuleCount(m) == SinkCount(LAMBDA s : s.desc \in DescsOf(m))

OutcomeCount == SinkCount(LAMBDA s : IsOutcome(s))

\* Every stat call and every DomainGetBlockInfo call of the cycle succeeded.
AllCallsSucceeded ==
    \A m \in Modules : \A k \in UnitIds(m) :
        /\ units[m][k].stat = "ok"
        /\ m = "block" => units[m][k].info = "ok"

\* The entries with one of the 13 known tags in the results of the first n
\* DomainMemoryStats calls.
RECURSIVE RecognisedEntries(_)
RecognisedEntries(n) ==
    IF n = 0 THEN 0
    ELSE Cardinality({i \in 1..Len(units["memory"][n].res) :
                         units["memory"][n].res[i].Tag \in 0..12})
           + RecognisedEntries(n - 1)

\* What collector m sends in a cycle over lvDomains when it is active and all
\* calls succeed.
DataExpected(m) ==
    IF m \notin Collectors THEN 0
    ELSE CASE m = "block" -> (4 + 3) * Cardinality(FixedDisks)
           [] m = "interface" -> 8 * Cardinality(TargetedInterfaces)
           [] m = "cpu" -> 2 * Len(lvDomains)
           [] m = "memory" -> RecognisedEntries(Len(units["memory"]))

----------------------------------------------------------------------------
\* Stat calls that do not return

\* The goroutines of m that are in a stat call that does not return.
HungUnits(m) == {k \in UnitIds(m) : units[m][k].pc = "hung"}

Stalled == {m \in Modules : HungUnits(m) # {}}

\* C23: a stat call that does not return stalls its goroutine, the Update that
\* started it and the cycle: the goroutine never calls wg.Done, so the counter
\* of Update's WaitGroup stays above zero, Update does not return, neither the
\* duration nor the success metric of that collector is sent, the counter of
\* Collect's WaitGroup stays above zero and Collect does not return; no step
\* of the program takes the goroutine out of the call.
C23_HangStalls ==
    /\ [](\A m \in Stalled :
            /\ modWg[m] >= Cardinality(HungUnits(m))
            /\ modPc[m] \in {"dispatch", "wait"}
            /\ ~Returned(m)
            /\ DurationCount(m) = 0
            /\ SuccessCount(m) = 0
            /\ cycleWg >= Cardinality(Stalled)
            /\ collectPc \in {"spawn", "wait"})
    /\ [][\A m \in Modules : HungUnits(m) \subseteq HungUnits(m)']_vars

\* A call of the cpu collector hangs; everything else of the cycle is over:
\* another collector has sent its pair and left, Collect is in wg.Wait.
C23_Witness ==
    /\ HungUnits("cpu") # {}
    /\ collectPc = "wait"
    /\ cycleWg = 1
    /\ modPc["cpu"] = "wait"
    /\ modWg["cpu"] = 1
    /\ \E m \in Collectors \ {"cpu"} :
         modPc[m] = "exit" /\ DurationCount(m) = 1 /\ SuccessCount(m) = 1
    /\ \A m \in Collectors \ {"cpu"} : modPc[m] = "exit"
    /\ DurationCount("cpu") = 0

----------------------------------------------------------------------------
\* The values of the cpu metrics

\* The values of the metrics named desc of the instance uuid in the sink.
SinkValues(desc, uuid) ==
    {s.value : s \in {x \in BagToSet(sink) : x.desc = desc /\ x.labels[1] = uuid}}

\* v <= w for two values over the same denominator.
ValueLeq(v, w) == v[2] = w[2] /\ v[1] <= w[1]

\* The cpu goroutines whose DomainGetInfo call succeeded and that are through.
CpuFetched ==
    {k \in UnitIds("cpu") : units["cpu"][k].stat = "ok" /\ units["cpu"][k].pc = "exit"}

\* C24: for every instance whose DomainGetInfo call succeeded, the value of
\* the cpu seconds metric is the cpu time of the call, in nanoseconds, divided
\* by 1e9, and the value of the vcpu metric is the vcpu count of the call as it
\* is; hence of two instances the one with the smaller cpu time never has the
\* larger cpu seconds value.
C24_CpuValues ==
    /\ \A k \in CpuFetched :
         LET u == units["cpu"][k]
         IN  /\ SinkValues("libvirt_domain_cpu_seconds_total", u.uuid)
                  = {<<u.res.cpuTime, NanosPerSecond>>}
             /\ SinkValues("libvirt_domain_cpu_vcpu_number", u.uuid)
                  = {<<u.res.nrVirtCPU, 1>>}
    /\ \A k1, k2 \in CpuFetched :
         units["cpu"][k1].res.cpuTime <= units["cpu"][k2].res.cpuTime =>
            \A v \in SinkValues("libvirt_domain_cpu_seconds_total", units["cpu"][k1].uuid) :
            \A w \in SinkValues("libvirt_domain_cpu_seconds_total", units["cpu"][k2].uuid) :
                ValueLeq(v, w)

\* Two instances with different cpu times and vcpu counts have their cpu
\* metrics in the sink.
C24_Witness ==
    /\ Cardinality(CpuFetched) = 2
    /\ \E k1, k2 \in CpuFetched :
         /\ units["cpu"][k1].res.cpuTime < units["cpu"][k2].res.cpuTime
         /\ units["cpu"][k1].res.nrVirtCPU # units["cpu"][k2].res.nrVirtCPU
         /\ SinkValues("libvirt_domain_cpu_seconds_total", units["cpu"][k1].uuid) # {}
         /\ SinkValues("libvirt_domain_cpu_seconds_total", units["cpu"][k2].uuid) # {}
    /\ ModuleCount("cpu") = 4

----------------------------------------------------------------------------
\* The metric names of the README and of the code

\* The metrics table of the README.
ReadmeNames ==
    {"libvirt_domain_cpu_seconds_total",
     "libvirt_domain_cpu_vcpu_number",
     "libvirt_domain_memory_stat_swapIn_bytes",
     "libvirt_domain_memory_stat_swapOut_bytes",
     "libvirt_domain_memory_stat_major_fault_pages",
     "libvirt_domain_memory_stat_minor_fault_pages",
     "libvirt_domain_memory_stat_unused_bytes",
     "libvirt_domain_memory_stat_available_bytes",
     "libvirt_domain_memory_stat_actual_balloon_bytes",
     "libvirt_domain_memory_stat_rss_bytes",
     "libvirt_domain_memory_stat_usable_bytes",
     "libvirt_domain_memory_stat_last_update_timestamp",
     "libvirt_domain_memory_stat_disk_cache_bytes",
     "libvirt_domain_memory_stat_hugetlb_alloc_pages",
     "libvirt_domain_memory_stat_hugetlb_fail_pages",
     "libvirt_domain_interface_receive_bytes_total",
     "libvirt_domain_interface_receive_packets_total",
     "libvirt_domain_interface_receive_errors_total",
     "libvirt_domain_interface_receive_drops_total",
     "libvirt_domain_interface_transmit_bytes_total",
     "libvirt_domain_interface_transmit_packets_total",
     "libvirt_domain_interface_transmit_errors_total",
     "libvirt_domain_interface_transmit_drops_total",
     "libvirt_domain_block_read_bytes_total",
     "libvirt_domain_block_read_requests_total",
     "libvirt_domain_block_write_bytes_total",
     "libvirt_domain_block_write_requests_total",
     "libvirt_domain_block_capacity_bytes",
     "libvirt_domain_block_allocation_bytes",
     "libvirt_domain_block_physical_bytes"}

\* The fully qualified names of the metric definitions of the four collectors.
DefinedNames == UNION {DescsOf(m) : m \in Modules}

\* C25: the names of the data metrics the four collectors can send are the
\* names of the README's metrics table: every name of the table is the name of
\* a metric definition, every metric definition has its name in the table, and
\* so has every data metric in the sink.
C25_Original ==
    /\ ReadmeNames \subseteq DefinedNames
    /\ DefinedNames \subseteq ReadmeNames
    /\ \A s \in BagToSet(sink) : ~IsOutcome(s) => s.desc \in ReadmeNames

----------------------------------------------------------------------------
\* The two calls of a block goroutine

BlockStatDescs ==
    {"libvirt_domain_block_read_bytes_total",
     "libvirt_domain_block_read_requests_total",
     "libvirt_domain_block_write_bytes_total",
     "libvirt_domain_block_write_requests_total"}

BlockInfoDescs ==
    {"libvirt_domain_block_capacity_bytes",
     "libvirt_domain_block_allocation_bytes",
     "libvirt_domain_block_physical_bytes"}

\* The block goroutines whose DomainBlockStats call succeeded and whose
\* DomainGetBlockInfo call failed.
InfoFailed == {k \in UnitIds("block") : units["block"][k].info = "err"}

\* C26: a block goroutine whose DomainBlockStats call succeeds and whose
\* DomainGetBlockInfo call fails sends the four metrics of the block stats and
\* none of capacity, allocation and physical, calls wg.Done once, and Update
\* still returns nil; a goroutine whose DomainBlockStats call fails never calls
\* DomainGetBlockInfo.
C26_BlockInfoFailure ==
    /\ [](\A k \in UnitIds("block") :
            LET u == units["block"][k]
            IN  /\ u.info = "err" =>
                     /\ u.stat = "ok"
                     /\ u.pc \in {"wgdone", "exit"}
                     /\ UnitCount("block", k) = 4
                     /\ UnitDescs("block", k) = BlockStatDescs
                     /\ u.todo = <<>>
                /\ u.stat = "err" => u.info = "none" /\ u.pc \in {"wgdone", "exit"}
                /\ u.stat = "pending" => u.info = "none")
    /\ [](Returned("block") /\ InfoFailed # {} =>
            /\ modErr["block"] = Nil
            /\ modWg["block"] = 0
            /\ \A k \in InfoFailed : units["block"][k].pc = "exit"
            /\ modPc["block"] \in {"wgdone", "exit"} => SuccessCountOf("block", 1) = 1)
    /\ [][\A k \in InfoFailed :
            (/\ k <= Len(units'["block"])
             /\ units'["block"][k].pc # units["block"][k].pc) =>
                /\ units["block"][k].pc = "wgdone"
                /\ units'["block"][k].pc = "exit"
                /\ modWg'["block"] = modWg["block"] - 1]_vars

\* The block Update has returned nil with one disk whose info call failed (its
\* four metrics are in the sink) and one disk whose stat call failed.
C26_Witness ==
    /\ modPc["block"] = "exit"
    /\ modErr["block"] = Nil
    /\ \E k1, k2 \in UnitIds("block") :
         /\ units["block"][k1].info = "err"
         /\ UnitCount("block", k1) = 4
         /\ units["block"][k2].stat = "err"
         /\ units["block"][k2].info = "none"
    /\ ModuleCount("block") = 4

----------------------------------------------------------------------------
\* A listing without domains

\* ConnectListAllDomains has returned without error and without domains.
ListedNone ==
    /\ collectPc \in {"spawn", "wait", "returned"}
    /\ abort \notin {"libvirt not created", "libvirt could not connect",
                     "failed to list domains"}
    /\ domains = <<>>

\* C27: a cycle whose listing succeeds and has no domains is not aborted: the
\* Update of every active collector is called, each returns ErrNotProvided,
\* and the sink gets no data metric and, for each active collector, one
\* duration metric and one success metric of 0.
C27_EmptyListing ==
    ListedNone =>
        /\ lvDomains = <<>>
        /\ ~Aborted
        /\ started \subseteq Collectors
        /\ \A m \in started : modErr[m] = ErrNotProvided /\ units[m] = <<>>
        /\ DataCount = 0
        /\ collectPc = "returned" =>
             /\ abort = "scrape finished"
             /\ started = Collectors
             /\ OutcomeCount = 2 * Cardinality(Collectors)
             /\ \A m \in Collectors :
                  /\ DurationCount(m) = 1
                  /\ SuccessCount(m) = 1
                  /\ SuccessCountOf(m, 0) = 1

\* Collect has returned from a cycle of three collectors over an empty
\* listing, with a connected client.
C27_Witness ==
    /\ ListedNone
    /\ Finished
    /\ pLibvirt = Client
    /\ connected
    /\ Cardinality(Collectors) >= 3
    /\ started = Collectors
    /\ \A m \in Collectors : SuccessCountOf(m, 0) = 1
    /\ DataCount = 0

----------------------------------------------------------------------------
\* The entries of DomainMemoryStats and the metrics of the memory collector

\* The metric definition of each of the 13 tags, in the order of the tags
\* (SwapIn = 0 .. HugetlbPgfail = 12).
TagNames ==
    <<"libvirt_domain_memory_stat_swap_in_bytes",
      "libvirt_domain_memory_stat_swap_out_bytes",
      "libvirt_domain_memory_stat_major_page_faults_number",
      "libvirt_domain_memory_stat_minor_page_faults_number",
      "libvirt_domain_memory_stat_unused_bytes",
      "libvirt_domain_memory_stat_available_bytes",
      "libvirt_domain_memory_stat_actual_ballon_bytes",
      "libvirt_domain_memory_stat_rss_bytes",
      "libvirt_domain_memory_stat_usable_bytes",
      "libvirt_domain_memory_stat_last_update_timestamp_seconds",
      "libvirt_domain_memory_stat_disk_cache_bytes",
      "libvirt_domain_memory_stat_hugetlb_pages_alloc_number",
      "libvirt_domain_memory_stat_hugetlb_page_faults_number">>

KnownTags == {t - 1 : t \in 1..Len(TagNames)}

\* The entries of res with tag t.
EntriesWith(res, t) == {i \in 1..Len(res) : res[i].Tag = t}

\* The memory goroutines whose DomainMemoryStats call succeeded and that have
\* left the loop over the entries.
MemoryFetched ==
    {k \in UnitIds("memory") :
        units["memory"][k].stat = "ok" /\ units["memory"][k].pc \in {"wgdone", "exit"}}

\* C28: for each instance whose DomainMemoryStats call succeeded the memory
\* collector sends one metric per returned entry with one of the 13 known
\* tags, of the metric definition of that tag and with the value of the entry
\* as it is; an entry with another tag sends nothing, does not fail the
\* goroutine, and leaves the WaitGroup as it is: the goroutine calls wg.Done
\* once and Update returns nil.
C28_MemoryEntries ==
    /\ \A k \in MemoryFetched :
         LET u == units["memory"][k]
         IN  /\ \A t \in KnownTags :
                  /\ SinkCount(LAMBDA s : s.desc = TagNames[t + 1] /\ s.labels = <<u.uuid>>)
                       = Cardinality(EntriesWith(u.res, t))
                  /\ \A i \in EntriesWith(u.res, t) :
                       [desc |-> TagNames[t + 1], value |-> <<u.res[i].Val, 1>>,
                        labels |-> <<u.uuid>>] \in BagToSet(sink)
             /\ UnitCount("memory", k)
                  = Cardinality({i \in 1..Len(u.res) : u.res[i].Tag \in KnownTags})
    /\ \A k \in UnitIds("memory") :
         (\E i \in 1..Len(units["memory"][k].res) :
             units["memory"][k].res[i].Tag \notin KnownTags) =>
                units["memory"][k].stat = "ok"
    /\ PastChecks("memory") =>
         /\ modWg["memory"] = Len(lvDomains) - Exited("memory")
         /\ Returned("memory") =>
              /\ modWg["memory"] = 0
              /\ modErr["memory"] = Nil
              /\ MemoryFetched \subseteq {k \in UnitIds("memory") :
                                            units["memory"][k].pc = "exit"}

\* The memory collector is through with an instance whose call returned two
\* entries with known tags and, between them, one with a tag that is not
\* known: two metrics and success 1.
C28_Witness ==
    /\ modPc["memory"] = "exit"
    /\ SuccessCountOf("memory", 1) = 1
    /\ \E k \in MemoryFetched :
         /\ Len(units["memory"][k].res) = 3
         /\ units["memory"][k].res[2].Tag \notin KnownTags
         /\ units["memory"][k].res[3].Tag \in KnownTags
         /\ UnitCount("memory", k) = 2

----------------------------------------------------------------------------
\* The flags after DisableDefaultCollectors

\* C29: DisableDefaultCollectors sets to false the flag of every registered
\* collector that was not set on the command line and leaves alone the flag
\* of every collector that was, as well as the registry itself; from then on
\* every enabled collector is one that was set on the command line, and a
\* call of NewLibvirtCollector without filters returns exactly the collectors
\* set on the command line whose flag is true.
C29_DisableDefaults ==
    /\ [][(~defaultsDisabled /\ defaultsDisabled') =>
            /\ \A m \in Modules :
                 /\ (m \in Registered /\ m \notin forcedCollectors) => ~enabled'[m]
                 /\ m \in forcedCollectors => enabled'[m] = enabled[m]
                 /\ m \notin Registered => enabled'[m] = enabled[m]
            /\ forcedCollectors' = forcedCollectors
            /\ collectorState' = collectorState
            /\ factories' = factories]_vars
    /\ [](defaultsDisabled =>
            /\ Enabled \subseteq forcedCollectors
            /\ \A c \in Calls :
                 (ReturnedCollector(c) /\ calls[c].filters = <<>>) =>
                    ActiveSet(c) = {m \in forcedCollectors : enabled[m]})

\* After DisableDefaultCollectors a call without filters has returned the one
\* collector that the command line enabled; another was disabled on the
\* command line and a third was registered and not named there.
C29_Witness ==
    /\ defaultsDisabled
    /\ ReturnedCollector(1)
    /\ calls[1].filters = <<>>
    /\ Cardinality(forcedCollectors) = 2
    /\ Cardinality(ActiveSet(1)) = 1
    /\ ActiveSet(1) \subseteq forcedCollectors
    /\ Registered \ forcedCollectors # {}

----------------------------------------------------------------------------
\* The order of what one collector sends

\* Collector m has data metrics that are built and not yet sent, or goroutines
\* that have yet to make their call.
DataOutstanding(m) ==
    \E k \in UnitIds(m) : units[m][k].pc # "exit" /\ units[m][k].pc # "wgdone"

\* C30: within a cycle the duration and the success metric of a collector are
\* sent after every data metric of that collector (Update returns when all of
\* its goroutines are through), and the duration before the success; nothing
\* orders the metrics of one collector and those of another.
C30_OutcomeAfterData ==
    /\ [](\A m \in Modules :
            (DurationCount(m) >= 1 \/ SuccessCount(m) >= 1) =>
                /\ Returned(m)
                /\ modPos[m] = Len(Items(m, lvDomains)) + 1 \/ modErr[m] # Nil
                /\ \A k \in UnitIds(m) :
                     units[m][k].pc = "exit" /\ units[m][k].todo = <<>>)
    /\ [](\A m \in Modules : SuccessCount(m) >= 1 => DurationCount(m) = 1)
    /\ [][\A m \in Modules :
            ModuleCount(m)' > ModuleCount(m) =>
                /\ DurationCount(m) = 0 /\ SuccessCount(m) = 0
                /\ DurationCount(m)' = 0 /\ SuccessCount(m)' = 0]_vars
    /\ [][\A m \in Modules :
            DurationCount(m)' > DurationCount(m) =>
                /\ ModuleCount(m)' = ModuleCount(m)
                /\ SuccessCount(m) = 0 /\ SuccessCount(m)' = 0]_vars
    /\ [][\A m \in Modules :
            SuccessCount(m)' > SuccessCount(m) =>
                /\ DurationCount(m) = 1
                /\ ModuleCount(m)' = ModuleCount(m)]_vars

\* One collector has sent its data, its duration and its success while another
\* collector of the same cycle has sent none of its data yet.
C30_Witness ==
    \E m1, m2 \in Collectors :
        /\ m1 # m2
        /\ ModuleCount(m1) > 0
        /\ DurationCount(m1) = 1
        /\ SuccessCount(m1) = 1
        /\ PastChecks(m2)
        /\ DataOutstanding(m2)
        /\ ModuleCount(m2) = 0
        /\ DurationCount(m2) = 0

----------------------------------------------------------------------------
\* The list Collect hands to the collectors

\* Collect has reached the start of the collectors.
StartsCollectors ==
    \/ collectPc \in {"spawn", "wait"}
    \/ \E m \in Modules : modPc[m] # "idle"

\* C31: whenever Collect starts the collectors, the list it hands to them has
\* one entry per handle of the listing, each entry with that handle and the
\* parsed description of its domain; no entry is left as make() created it
\* and no store goes beyond the list, whatever the handles of the listing and
\* the count returned alongside.
C31_Original ==
    /\ collectPc # "panic"
    /\ StartsCollectors =>
         /\ Len(lvDomains) = Len(domains)
         /\ \A i \in 1..Len(lvDomains) :
              /\ lvDomains[i] # ZeroLvDomain
              /\ i <= Len(domains) =>
                   /\ lvDomains[i].Domain = domains[i]
                   /\ lvDomains[i].Schema \in Schemas(domains[i])

----------------------------------------------------------------------------
\* A call that fails on its filters

\* Call c has returned the error of the loop over its filters.
FailedFilters(c) ==
    /\ calls[c].pc = "done"
    /\ calls[c].err # Nil
    /\ calls[c].err[1] \in {"missing collector", "disabled collector"}

\* C32: a NewLibvirtCollector call that returns the error of a missing or
\* disabled filter name leaves the registry as it was: no factory is called,
\* the cache of constructed collectors, the enabled flags and the registered
\* names are those of before the call, and the call does not hold the mutex
\* when it has returned.
C32_FailedCallFrame ==
    /\ [][\A c \in Calls :
            (calls[c].pc = "idle" /\ calls'[c].pc = "done" /\ calls'[c].err # Nil)
              => /\ UNCHANGED <<constructCalls, initiatedCollectors, enabled,
                                collectorState, factories, forcedCollectors,
                                initiatedCollectorsMtx>>
                 /\ calls'[c].collectors = NoCollectors
                 /\ calls'[c].result = Nil]_vars
    /\ [](\A c \in Calls : FailedFilters(c) => initiatedCollectorsMtx # c)

\* A call has failed on a missing name while the other call holds the mutex
\* and the cache holds a constructed collector.
C32_Witness ==
    \E c \in Calls : \E d \in Calls \ {c} :
        /\ FailedFilters(c)
        /\ calls[c].err[1] = "missing collector"
        /\ initiatedCollectorsMtx = d
        /\ \E m \in Modules : initiatedCollectors[m] # Nil

----------------------------------------------------------------------------
\* Termination of a cycle

\* Collect has been called and has not returned.
InCollect == collectPc \notin {"idle", "returned"}

====
